---- MODULE Spec2Model ----
(***************************************************************************)
(* Model of the two concurrency-bearing subsystems of adguardfilter:       *)
(*   - common/timer/timer.go : the timer registry and the Timer goroutine  *)
(*   - adguardapi/auth.go    : the cookie session and the re-authenticating*)
(*                             request wrapper                             *)
(* Every goroutine is a process with a program counter. A step of the      *)
(* model is one critical section of the code (everything done under one    *)
(* acquisition of timersMu or of a Timer's mu) together with the local     *)
(* statements and the channel operation that lead to it.                   *)
(***************************************************************************)
EXTENDS Integers, FiniteSets, Sequences, TLC

\* ------------------------------------------------------------------ bounds
MaxOps == 3             \* calls of the timer package that get past validation

Callers == {"c1", "c2"}             \* goroutines calling the timer package
TimerIDs == {"a", "b"}              \* registry keys (Timer.id)
TimerObjs == 1..MaxOps              \* identities of *Timer values
Offsets == {0 - 1, 0, 1}            \* minutes, or deadline - now: <0, =0, >0
Callbacks == {"nil", "func"}         \* a nil callback, a callback function

ValidMinutes == {m \in Offsets : m > 0}    \* timer.go:30 lets these pass
ValidOffsets == {o \in Offsets : ~(o < 0)}  \* timer.go:51 lets these pass

NoTimer == 0                        \* the nil *Timer / an absent key
StopChanCap == 1                    \* timer.go:85  make(chan bool, 1)

\* ------------------------------------------------------------------- state
VARIABLES
  timers,     \* timer.go:24  registry, TimerID -> *Timer (NoTimer: key absent)
  nextT,      \* number of Timer objects allocated so far
  tId,        \* Timer.id
  tActive,    \* Timer.isActive
  stopChan,   \* Timer.stopChan: number of buffered signals (capacity 1)
  timerC,     \* Timer.timer.C is ready (the runtime timer has fired)
  tpc,        \* position of the goroutine running Timer.run
  cbCount,    \* how many times t.callback() has been invoked
  tSup,       \* the active Timer createTimer found under the id of t
  tEarly,     \* t waits in its select with a stop signal sent before expiry
  crashed,    \* a panic left a goroutine unrecovered and ended the process
  timersMu,   \* timer.go:25  who holds the registry lock, and in which mode
  cpc,        \* position of each caller
  cArg,       \* arguments and lookup result of the call in progress
  cList,      \* StopAllTimers: Timers of the snapshot not yet stopped
  ops,        \* number of calls started so far that got past validation
  ret         \* the error a call returned in the last step ("": none)

timerVars == <<timers, nextT, tId, tActive, stopChan,
               timerC, tpc, cbCount, tSup, tEarly, crashed, timersMu>>
callerVars == <<cpc, cArg, cList, ops>>

\* session state (adguardapi/auth.go)
VARIABLES
  httpClient,   \* auth.go:24  NoClient, or the jar of the current client
  nJar,         \* number of jars created so far
  jar,          \* jar -> hosts it holds unexpired cookies for
  authBaseURL,  \* auth.go:26
  authUsername, \* auth.go:27
  authPassword, \* auth.go:28
  apc,          \* position of each client
  aArg,         \* arguments of the Authenticate call in progress
  aFrom,        \* who called Authenticate: "direct" or "reauth"
  sends,        \* statuses answered to the sends of the request so far
  nAuth,        \* Authenticate calls made by the DoAuthenticatedRequest call
  reqBody,      \* req.Body of the request the call was given
  out           \* what the call that returned in the last step handed back

authVars == <<httpClient, nJar, jar, authBaseURL, authUsername, authPassword,
              apc, aArg, aFrom, sends, nAuth, reqBody, out>>

\* the handlers of the timed updates (api/api.go); a handler runs on the
\* goroutine of one caller of the timer package
VARIABLES
  hpc,          \* position of the handler each caller is executing
  hArg,         \* what the handler was asked for: kind, timer id, time left
  applied,      \* a timed update has been applied upstream
  mpc,          \* position of main
  mReset,       \* main has called ResetBlockedServices
  tMu           \* timer.go:17  who holds Timer.mu ("": nobody)

mainVars == <<mpc, mReset>>
apiVars == <<hpc, hArg, applied, mainVars>>
lockVars == <<tMu>>

\* everything the timer package owns
timerSide == <<timerVars, callerVars, ret>>

\* timersMu unlocked: no caller holds it for reading (r) or writing (w) and
\* no Timer goroutine (g) holds it.
Unlocked == [r |-> {}, w |-> {}, g |-> {}]

\* timersMu.Lock() / timersMu.RLock() can be taken (sync.RWMutex).
CanLock == timersMu = Unlocked
CanRLock == timersMu.w = {} /\ timersMu.g = {}

NoArg == [id |-> "", exp |-> 0, found |-> NoTimer, sup |-> NoTimer]
NoRet == ""

TimerInit ==
  /\ timers = [i \in TimerIDs |-> NoTimer]
  /\ nextT = 0
  /\ tId = [t \in TimerObjs |-> ""]
  /\ tActive = [t \in TimerObjs |-> FALSE]
  /\ stopChan = [t \in TimerObjs |-> 0]
  /\ timerC = [t \in TimerObjs |-> FALSE]
  /\ tpc = [t \in TimerObjs |-> "none"]
  /\ cbCount = [t \in TimerObjs |-> 0]
  /\ tSup = [t \in TimerObjs |-> NoTimer]
  /\ tEarly = [t \in TimerObjs |-> FALSE]
  /\ crashed = FALSE
  /\ timersMu = Unlocked
  /\ cpc = [c \in Callers |-> "idle"]
  /\ cArg = [c \in Callers |-> NoArg]
  /\ cList = [c \in Callers |-> {}]
  /\ ops = 0
  /\ ret = NoRet

\* ------------------------------------------------------- registry queries
\* timer.go:186-191
GetTimer(id) == [timer |-> timers[id], exists |-> timers[id] # NoTimer]

\* timer.go:209-221
GetAllActiveTimers == {i \in TimerIDs : timers[i] # NoTimer /\ tActive[timers[i]]}

\* timer.go:168-173
IsActive(t) == tActive[t]

\* ------------------------------------------------------------ createTimer
\* timer.go:80-97: allocate the Timer, register it under id (overwriting
\* whatever the key holds), start its goroutine and return the handle.
\* sup is the Timer the lookup of line 73 found, if it was active then.
\* run's first statement (line 102) arms the runtime timer; a non-positive
\* duration is due at once.
Install(c, id, exp, sup) ==
  /\ LET t == nextT + 1 IN
       /\ nextT' = t
       /\ tId' = [tId EXCEPT ![t] = id]
       /\ tActive' = [tActive EXCEPT ![t] = TRUE]
       /\ tSup' = [tSup EXCEPT ![t] = sup]
       /\ timers' = [timers EXCEPT ![id] = t]
       /\ tpc' = [tpc EXCEPT ![t] = "select"]
       /\ timerC' = [timerC EXCEPT ![t] = exp <= 0]
  /\ cpc' = [cpc EXCEPT ![c] = "idle"]
  /\ cArg' = [cArg EXCEPT ![c] = NoArg]
  /\ ret' = ""
  /\ timersMu' = Unlocked
  /\ UNCHANGED <<stopChan, cbCount, tEarly, crashed, cList>>

\* createTimer calling Stop on the Timer it found without releasing the
\* registry lock first (no Unlock at line 74).
createTimer_StopsUnderLock(c, id, exp) ==
  /\ ops < MaxOps
  /\ CanLock
  /\ ops' = ops + 1
  /\ IF timers[id] # NoTimer
       THEN /\ cpc' = [cpc EXCEPT ![c] = "ct_stop"]
            /\ cArg' = [cArg EXCEPT ![c] =
                          [id |-> id, exp |-> exp, found |-> timers[id],
                           sup |-> IF tActive[timers[id]]
                                     THEN timers[id] ELSE NoTimer]]
            /\ ret' = NoRet
            /\ timersMu' = [Unlocked EXCEPT !.w = {c}]
            /\ UNCHANGED <<timers, nextT, tId, tActive, stopChan, timerC, tpc,
                           cbCount, tSup, tEarly, crashed, cList>>
       ELSE Install(c, id, exp, NoTimer)

\* timer.go:70-78: look the id up under timersMu (Lock, line 72). An
\* existing Timer is stopped after the registry lock is released (Unlock,
\* line 74; createTimerStop, then createTimerInstall); otherwise the Timer
\* is installed in the same critical section.
createTimer(c, id, exp) ==
  /\ ops < MaxOps
  /\ CanLock
  /\ ops' = ops + 1
  /\ IF timers[id] # NoTimer
       THEN /\ cpc' = [cpc EXCEPT ![c] = "ct_stop"]
            /\ cArg' = [cArg EXCEPT ![c] =
                          [id |-> id, exp |-> exp, found |-> timers[id],
                           sup |-> IF tActive[timers[id]]
                                     THEN timers[id] ELSE NoTimer]]
            /\ ret' = NoRet
            /\ timersMu' = Unlocked
            /\ UNCHANGED <<timers, nextT, tId, tActive, stopChan, timerC, tpc,
                           cbCount, tSup, tEarly, crashed, cList>>
       ELSE Install(c, id, exp, NoTimer)

\* A validation failure: the error is returned and nothing else changes.
Reject(c, e) ==
  /\ ret' = e
  /\ UNCHANGED <<timerVars, callerVars>>

\* NewTimerWithDuration rejecting negative durations only.
NewTimerWithDuration_NegativeOnly(c, id, minutes, cb) ==
  /\ cpc[c] = "idle"
  /\ IF minutes < 0
       THEN Reject(c, "duration must be greater than 0 minutes")
       ELSE IF cb = "nil"
         THEN Reject(c, "callback function cannot be nil")
         ELSE createTimer(c, id, minutes)
  /\ UNCHANGED <<authVars, apiVars, lockVars>>

\* timer.go:29-47
NewTimerWithDuration(c, id, minutes, cb) ==
  /\ cpc[c] = "idle"
  /\ IF minutes <= 0
       THEN Reject(c, "duration must be greater than 0 minutes")
       ELSE IF cb = "nil"
         THEN Reject(c, "callback function cannot be nil")
         ELSE createTimer(c, id, minutes)
  /\ UNCHANGED <<authVars, apiVars, lockVars>>

\* NewTimerWithDeadline without the callback check of lines 56-59.
NewTimerWithDeadline_NoCallbackCheck(c, id, off, cb) ==
  /\ cpc[c] = "idle"
  /\ IF off < 0
       THEN Reject(c, "deadline must be in the future")
       ELSE createTimer(c, id, off)
  /\ UNCHANGED <<authVars, apiVars, lockVars>>

\* timer.go:50-67. off is deadline - time.Now(); deadline.Before(now) is
\* off < 0, so a deadline equal to now passes the check.
NewTimerWithDeadline(c, id, off, cb) ==
  /\ cpc[c] = "idle"
  /\ IF off < 0
       THEN Reject(c, "deadline must be in the future")
       ELSE IF cb = "nil"
         THEN Reject(c, "callback function cannot be nil")
         ELSE createTimer(c, id, off)
  /\ UNCHANGED <<authVars, apiVars, lockVars>>

\* ------------------------------------------------------------- Timer.Stop
\* Stop without the isActive check of lines 155-158.
Stop_NoActiveCheck(t) ==
  IF stopChan[t] < StopChanCap
    THEN [stopChan EXCEPT ![t] = stopChan[t] + 1]
    ELSE stopChan

\* Stop sending on a channel that takes every signal (no default case
\* needed, the buffer never fills).
Stop_Accumulates(t) ==
  IF ~tActive[t]
    THEN stopChan
    ELSE [stopChan EXCEPT ![t] = stopChan[t] + 1]

\* timer.go:151-166, the whole critical section under t.mu: an inactive
\* Timer is left alone, an active one gets a non-blocking send on its
\* one-slot channel. The value is the channel contents afterwards.
Stop(t) ==
  IF ~tActive[t]
    THEN stopChan
    ELSE IF stopChan[t] < StopChanCap
      THEN [stopChan EXCEPT ![t] = stopChan[t] + 1]
      ELSE stopChan

\* Whether the send of Stop(t) puts a signal in the channel while the runtime
\* timer of t has not reached its expiry.
StopEarly(t) ==
  IF tActive[t] /\ stopChan[t] < StopChanCap /\ ~timerC[t]
    THEN [tEarly EXCEPT ![t] = TRUE]
    ELSE tEarly

\* timer.go:76: createTimer stops the Timer it found.
createTimerStop(c) ==
  /\ cpc[c] = "ct_stop"
  /\ stopChan' = Stop(cArg[c].found)
  /\ tEarly' = StopEarly(cArg[c].found)
  /\ cpc' = [cpc EXCEPT ![c] = "ct_install"]
  /\ ret' = NoRet
  /\ UNCHANGED <<timers, nextT, tId, tActive, timerC, tpc,
                 cbCount, tSup, timersMu, crashed, cArg, cList, ops>>
  /\ UNCHANGED <<authVars, apiVars, lockVars>>

\* timer.go:77-97: lock again and install.
createTimerInstall(c) ==
  /\ cpc[c] = "ct_install"
  /\ CanLock
  /\ Install(c, cArg[c].id, cArg[c].exp, cArg[c].sup)
  /\ UNCHANGED ops
  /\ UNCHANGED <<authVars, apiVars, lockVars>>

\* timer.go:194-202: the lookup of StopTimer.
StopTimer(c, id) ==
  /\ cpc[c] = "idle"
  /\ CanRLock
  /\ IF timers[id] = NoTimer
       THEN /\ ret' = "timer not found"
            /\ UNCHANGED <<cpc, cArg, ops>>
       ELSE /\ ops < MaxOps
            /\ ops' = ops + 1
            /\ cpc' = [cpc EXCEPT ![c] = "st_stop"]
            /\ cArg' = [cArg EXCEPT ![c] = [NoArg EXCEPT !.found = timers[id]]]
            /\ ret' = NoRet
  /\ UNCHANGED <<timerVars, cList>>
  /\ UNCHANGED <<authVars, apiVars, lockVars>>

\* timer.go:204-205
StopTimerStop(c) ==
  /\ cpc[c] = "st_stop"
  /\ stopChan' = Stop(cArg[c].found)
  /\ tEarly' = StopEarly(cArg[c].found)
  /\ cpc' = [cpc EXCEPT ![c] = "idle"]
  /\ cArg' = [cArg EXCEPT ![c] = NoArg]
  /\ ret' = ""
  /\ UNCHANGED <<timers, nextT, tId, tActive, timerC, tpc,
                 cbCount, tSup, timersMu, crashed, cList, ops>>
  /\ UNCHANGED <<authVars, apiVars, lockVars>>

\* timer.go:224-232: snapshot the registry under the read lock.
StopAllTimers(c) ==
  /\ cpc[c] = "idle"
  /\ CanRLock
  /\ ops < MaxOps
  /\ ops' = ops + 1
  /\ LET snap == {timers[i] : i \in {j \in TimerIDs : timers[j] # NoTimer}} IN
       /\ cList' = [cList EXCEPT ![c] = snap]
       /\ cpc' = [cpc EXCEPT ![c] = IF snap = {} THEN "idle" ELSE "stopall"]
       /\ ret' = IF snap = {} THEN "" ELSE NoRet
  /\ UNCHANGED <<timerVars, cArg>>
  /\ UNCHANGED <<authVars, apiVars, lockVars>>

\* StopAllTimers returning after the first Timer of the snapshot (a return
\* inside the loop of lines 234-236).
StopAllNext_DropsRest(c) ==
  /\ cpc[c] = "stopall"
  /\ \E t \in cList[c] :
       /\ stopChan' = Stop(t)
       /\ tEarly' = StopEarly(t)
       /\ cList' = [cList EXCEPT ![c] = {}]
       /\ cpc' = [cpc EXCEPT ![c] = "idle"]
       /\ ret' = ""
  /\ UNCHANGED <<timers, nextT, tId, tActive, timerC, tpc,
                 cbCount, tSup, timersMu, crashed, cArg, ops>>
  /\ UNCHANGED <<authVars, apiVars, lockVars>>

\* timer.go:234-236: one iteration of the loop over the snapshot (the order
\* of a map iteration is arbitrary).
StopAllNext(c) ==
  /\ cpc[c] = "stopall"
  /\ \E t \in cList[c] :
       /\ stopChan' = Stop(t)
       /\ tEarly' = StopEarly(t)
       /\ cList' = [cList EXCEPT ![c] = cList[c] \ {t}]
       /\ cpc' = [cpc EXCEPT ![c] = IF cList[c] = {t} THEN "idle" ELSE "stopall"]
       /\ ret' = IF cList[c] = {t} THEN "" ELSE NoRet
  /\ UNCHANGED <<timers, nextT, tId, tActive, timerC, tpc,
                 cbCount, tSup, timersMu, crashed, cArg, ops>>
  /\ UNCHANGED <<authVars, apiVars, lockVars>>

\* -------------------------------------------------------------- Timer.run
\* The runtime timer armed at line 102 reaches its expiry.
TimerFires(t) ==
  /\ tpc[t] = "select"
  /\ ~timerC[t]
  /\ timerC' = [timerC EXCEPT ![t] = TRUE]
  /\ ret' = NoRet
  /\ UNCHANGED <<timers, nextT, tId, tActive, stopChan,
                 tpc, cbCount, tSup, timersMu, tEarly, crashed, callerVars>>
  /\ UNCHANGED <<authVars, apiVars, lockVars>>

\* run with the select in a loop that the expiry case does not leave and
\* that re-arms the runtime timer: the goroutine only ends when stopped.
RunExpired_WaitsForStop(t) ==
  /\ tpc[t] = "select"
  /\ timerC[t]
  /\ timerC' = [timerC EXCEPT ![t] = FALSE]
  /\ ret' = NoRet
  /\ UNCHANGED <<timers, nextT, tId, tActive, stopChan, tpc, cbCount, tSup,
                 timersMu, tEarly, crashed, callerVars>>
  /\ UNCHANGED <<authVars, apiVars, lockVars>>

\* timer.go:104-122: select takes the expiry case, the flag is cleared under
\* t.mu, the deferred recover is registered and the callback is called
\* (createTimer is only reached with a non-nil callback).
RunExpired(t) ==
  /\ tpc[t] = "select"
  /\ timerC[t]
  /\ timerC' = [timerC EXCEPT ![t] = FALSE]
  /\ tActive' = [tActive EXCEPT ![t] = FALSE]
  /\ cbCount' = [cbCount EXCEPT ![t] = cbCount[t] + 1]
  /\ tpc' = [tpc EXCEPT ![t] = "in_cb"]
  /\ tEarly' = [tEarly EXCEPT ![t] = FALSE]
  /\ ret' = NoRet
  /\ UNCHANGED <<timers, nextT, tId, stopChan, tSup, timersMu, crashed,
                 callerVars>>
  /\ UNCHANGED <<authVars, apiVars, lockVars>>

\* RunCallbackReturn with the removal of lines 126-129 left out.
RunCallbackReturn_KeepsEntry(t) ==
  /\ tpc[t] = "in_cb"
  /\ tpc' = [tpc EXCEPT ![t] = "fired"]
  /\ ret' = NoRet
  /\ UNCHANGED <<timers, nextT, tId, tActive, stopChan, timerC,
                 cbCount, tSup, timersMu, tEarly, crashed, callerVars>>
  /\ UNCHANGED <<authVars, apiVars, lockVars>>

\* timer.go:122-129: the callback returns; delete(timers, t.id), by key,
\* under timersMu; run returns.
RunCallbackReturn(t) ==
  /\ tpc[t] = "in_cb"
  /\ CanLock
  /\ timers' = [timers EXCEPT ![tId[t]] = NoTimer]
  /\ tpc' = [tpc EXCEPT ![t] = "fired"]
  /\ ret' = NoRet
  /\ UNCHANGED <<nextT, tId, tActive, stopChan, timerC,
                 cbCount, tSup, timersMu, tEarly, crashed, callerVars>>
  /\ UNCHANGED <<authVars, apiVars, lockVars>>

\* RunCallbackPanic without the deferred recover of lines 115-120: the panic
\* leaves run and ends the process.
RunCallbackPanic_Unrecovered(t) ==
  /\ tpc[t] = "in_cb"
  /\ tpc' = [tpc EXCEPT ![t] = "panicked"]
  /\ crashed' = TRUE
  /\ ret' = NoRet
  /\ UNCHANGED <<timers, nextT, tId, tActive, stopChan, timerC,
                 cbCount, tSup, timersMu, tEarly, callerVars>>
  /\ UNCHANGED <<authVars, apiVars, lockVars>>

\* timer.go:115-120: the callback panics; run unwinds, the deferred function
\* recovers and run returns. The statements after t.callback() (lines
\* 123-129) are not executed.
RunCallbackPanic(t) ==
  /\ tpc[t] = "in_cb"
  /\ tpc' = [tpc EXCEPT ![t] = "panicked"]
  /\ ret' = NoRet
  /\ UNCHANGED <<timers, nextT, tId, tActive, stopChan, timerC,
                 cbCount, tSup, timersMu, tEarly, crashed, callerVars>>
  /\ UNCHANGED <<authVars, apiVars, lockVars>>

\* RunStopped without the flag update of lines 133-135.
RunStopped_KeepsFlag(t) ==
  /\ tpc[t] = "select"
  /\ stopChan[t] > 0
  /\ stopChan' = [stopChan EXCEPT ![t] = 0]
  /\ timerC' = [timerC EXCEPT ![t] = FALSE]
  /\ tpc' = [tpc EXCEPT ![t] = "stop_del"]
  /\ tEarly' = [tEarly EXCEPT ![t] = FALSE]
  /\ ret' = NoRet
  /\ UNCHANGED <<timers, nextT, tId, tActive, cbCount, tSup, timersMu, crashed,
                 callerVars>>
  /\ UNCHANGED <<authVars, apiVars, lockVars>>

\* timer.go:131-139: select takes the stop case and receives the signal, the
\* flag is cleared under t.mu, the runtime timer is stopped.
RunStopped(t) ==
  /\ tpc[t] = "select"
  /\ stopChan[t] > 0
  /\ stopChan' = [stopChan EXCEPT ![t] = 0]
  /\ tActive' = [tActive EXCEPT ![t] = FALSE]
  /\ timerC' = [timerC EXCEPT ![t] = FALSE]
  /\ tpc' = [tpc EXCEPT ![t] = "stop_del"]
  /\ tEarly' = [tEarly EXCEPT ![t] = FALSE]
  /\ ret' = NoRet
  /\ UNCHANGED <<timers, nextT, tId, cbCount, tSup, timersMu, crashed,
                 callerVars>>
  /\ UNCHANGED <<authVars, apiVars, lockVars>>

\* RunStoppedRemove with the select inside a loop that the stop case does
\* not leave: the goroutine waits again.
RunStoppedRemove_WaitsAgain(t) ==
  /\ tpc[t] = "stop_del"
  /\ CanLock
  /\ timers' = [timers EXCEPT ![tId[t]] = NoTimer]
  /\ tpc' = [tpc EXCEPT ![t] = "select"]
  /\ ret' = NoRet
  /\ UNCHANGED <<nextT, tId, tActive, stopChan, timerC,
                 cbCount, tSup, timersMu, tEarly, crashed, callerVars>>
  /\ UNCHANGED <<authVars, apiVars, lockVars>>

\* timer.go:143-147: delete(timers, t.id), by key, under timersMu; run
\* returns.
RunStoppedRemove(t) ==
  /\ tpc[t] = "stop_del"
  /\ CanLock
  /\ timers' = [timers EXCEPT ![tId[t]] = NoTimer]
  /\ tpc' = [tpc EXCEPT ![t] = "cancelled"]
  /\ ret' = NoRet
  /\ UNCHANGED <<nextT, tId, tActive, stopChan, timerC,
                 cbCount, tSup, timersMu, tEarly, crashed, callerVars>>
  /\ UNCHANGED <<authVars, apiVars, lockVars>>

\* The goroutine of t has returned from run.
Finished(t) == tpc[t] \in {"fired", "panicked", "cancelled"}

\* =================================================================== auth
Clients == {"r1", "r2"}             \* goroutines using the session
URLs == {"", "b1"}                  \* base URLs ("" is the unset value)
Users == {"", "u1", "u2"}
Passwords == {"", "p1"}
Hosts == URLs \ {""}
Statuses == {200, 401, 403, 500}    \* status codes the upstream answers with
JarIds == 1..Cardinality(Clients)   \* cookie jars InitHTTPClient can make
NoClient == 0                       \* httpClient == nil

ErrTransport == "transport error"
ErrLoginStatus == "authentication failed with status"
ErrReadBody == "failed to read response body"
ErrNoCookies == "no cookies received from authentication"
ErrNoCredentials == "authentication required but no credentials available"

NoCreds == [b |-> "", u |-> "", p |-> ""]
NoOut == [r |-> "", op |-> "", resp |-> 0, err |-> "", sends |-> <<>>,
          nAuth |-> 0, login |-> ""]

\* auth.go:31-36: the stored credentials start as the environment gives
\* them, each set or unset.
AuthInit ==
  /\ httpClient = NoClient
  /\ nJar = 0
  /\ jar = [j \in JarIds |-> {}]
  /\ authBaseURL \in URLs
  /\ authUsername \in Users
  /\ authPassword \in Passwords
  /\ apc = [r \in Clients |-> "idle"]
  /\ aArg = [r \in Clients |-> NoCreds]
  /\ aFrom = [r \in Clients |-> ""]
  /\ sends = [r \in Clients |-> <<>>]
  /\ nAuth = [r \in Clients |-> 0]
  /\ reqBody = [r \in Clients |-> "none"]
  /\ out = NoOut

\* The Body values a request can be given.
Bodies == {"none", "unread"}

\* httpClient.Do(req) reads req.Body to its end when it writes the request:
\* a buffer that held the payload is empty afterwards.
AfterSend(body) == IF body = "unread" THEN "drained" ELSE body

\* isAuthError taking every error status for an authorization failure.
isAuthError_AnyErrorStatus(statusCode) == statusCode >= 400

\* auth.go:146-148
isAuthError(statusCode) == statusCode = 401 \/ statusCode = 403

\* canReauthenticate checking the base URL only.
canReauthenticate_URLOnly == authBaseURL # ""

\* auth.go:151-153
canReauthenticate == authBaseURL # "" /\ authUsername # "" /\ authPassword # ""

\* DoAuthenticatedRequest returns (resp, err) to its caller.
DoReturn(r, resp, err, sent, auths, login) ==
  /\ out' = [r |-> r, op |-> "DoAuthenticatedRequest", resp |-> resp,
             err |-> err, sends |-> sent, nAuth |-> auths, login |-> login]
  /\ apc' = [apc EXCEPT ![r] = "idle"]
  /\ aArg' = [aArg EXCEPT ![r] = NoCreds]
  /\ aFrom' = [aFrom EXCEPT ![r] = ""]
  /\ sends' = [sends EXCEPT ![r] = <<>>]
  /\ nAuth' = [nAuth EXCEPT ![r] = 0]
  /\ reqBody' = [reqBody EXCEPT ![r] = "none"]

\* auth.go:156-162: entry of DoAuthenticatedRequest, the nil check of the
\* shared client. body is the Body of req: "none" for the GET requests
\* (adguardapi.go:20, 75), "unread" for the PUT requests, whose Body is a
\* bytes.Buffer holding the payload (adguardapi.go:135, 229).
DoAuthenticatedRequest(r, body) ==
  /\ apc[r] = "idle"
  /\ apc' = [apc EXCEPT ![r] = IF httpClient = NoClient THEN "d_init" ELSE "d_send"]
  /\ reqBody' = [reqBody EXCEPT ![r] = body]
  /\ out' = NoOut
  /\ UNCHANGED <<httpClient, nJar, jar, authBaseURL, authUsername,
                 authPassword, aArg, aFrom, sends, nAuth>>
  /\ UNCHANGED <<timerSide, apiVars, lockVars>>

\* auth.go:39-53: InitHTTPClient makes a client with a fresh jar and assigns
\* the global (cookiejar.New(nil) does not fail).
InitHTTPClient(r) ==
  /\ apc[r] \in {"d_init", "a_init"}
  /\ nJar' = nJar + 1
  /\ httpClient' = nJar + 1
  /\ apc' = [apc EXCEPT ![r] = IF apc[r] = "d_init" THEN "d_send" ELSE "a_login"]
  /\ out' = NoOut
  /\ UNCHANGED <<jar, authBaseURL, authUsername, authPassword,
                 aArg, aFrom, sends, nAuth, reqBody>>
  /\ UNCHANGED <<timerSide, apiVars, lockVars>>

\* SendFirst sending again after a transport failure.
SendFirst_RetriesTransport(r, o) ==
  /\ apc[r] = "d_send"
  /\ IF o = 0
       THEN /\ apc' = [apc EXCEPT ![r] = "d_retry"]
            /\ out' = NoOut
            /\ UNCHANGED <<aArg, aFrom, sends, nAuth, reqBody>>
       ELSE IF ~isAuthError(o)
         THEN /\ DoReturn(r, o, "", Append(sends[r], o), 0, "")
         ELSE IF ~canReauthenticate
           THEN /\ DoReturn(r, 0, ErrNoCredentials, Append(sends[r], o), 0, "")
           ELSE /\ sends' = [sends EXCEPT ![r] = Append(sends[r], o)]
                /\ nAuth' = [nAuth EXCEPT ![r] = nAuth[r] + 1]
                /\ aArg' = [aArg EXCEPT ![r] = [b |-> authBaseURL,
                                                u |-> authUsername,
                                                p |-> authPassword]]
                /\ aFrom' = [aFrom EXCEPT ![r] = "reauth"]
                /\ apc' = [apc EXCEPT ![r] = "a_login"]
                /\ reqBody' = [reqBody EXCEPT ![r] = AfterSend(reqBody[r])]
                /\ out' = NoOut
  /\ UNCHANGED <<httpClient, nJar, jar, authBaseURL, authUsername, authPassword>>
  /\ UNCHANGED <<timerSide, apiVars, lockVars>>

\* auth.go:165-183: the first send and what follows up to the login
\* request. o is the upstream outcome: 0 for a transport failure, else the
\* status of the response.
SendFirst(r, o) ==
  /\ apc[r] = "d_send"
  /\ IF o = 0
       THEN /\ DoReturn(r, 0, ErrTransport, sends[r], 0, "")
       ELSE IF ~isAuthError(o)
         THEN /\ DoReturn(r, o, "", Append(sends[r], o), 0, "")
         ELSE IF ~canReauthenticate
           THEN /\ DoReturn(r, 0, ErrNoCredentials, Append(sends[r], o), 0, "")
           ELSE /\ sends' = [sends EXCEPT ![r] = Append(sends[r], o)]
                /\ nAuth' = [nAuth EXCEPT ![r] = nAuth[r] + 1]
                /\ aArg' = [aArg EXCEPT ![r] = [b |-> authBaseURL,
                                                u |-> authUsername,
                                                p |-> authPassword]]
                /\ aFrom' = [aFrom EXCEPT ![r] = "reauth"]
                /\ apc' = [apc EXCEPT ![r] = "a_login"]
                /\ reqBody' = [reqBody EXCEPT ![r] = AfterSend(reqBody[r])]
                /\ out' = NoOut
  /\ UNCHANGED <<httpClient, nJar, jar, authBaseURL, authUsername, authPassword>>
  /\ UNCHANGED <<timerSide, apiVars, lockVars>>

\* auth.go:56-62: a direct call of Authenticate, the nil check of the
\* shared client.
Authenticate(r, baseURL, username, password) ==
  /\ apc[r] = "idle"
  /\ aArg' = [aArg EXCEPT ![r] = [b |-> baseURL, u |-> username, p |-> password]]
  /\ aFrom' = [aFrom EXCEPT ![r] = "direct"]
  /\ apc' = [apc EXCEPT ![r] = IF httpClient = NoClient THEN "a_init" ELSE "a_login"]
  /\ out' = NoOut
  /\ UNCHANGED <<httpClient, nJar, jar, authBaseURL, authUsername,
                 authPassword, sends, nAuth, reqBody>>
  /\ UNCHANGED <<timerSide, apiVars, lockVars>>

\* AuthFail with DoAuthenticatedRequest ignoring the error of its
\* Authenticate call and going on to the resend.
AuthFail_ResendAnyway(r, e, login) ==
  IF aFrom[r] = "reauth"
    THEN /\ apc' = [apc EXCEPT ![r] = "d_retry"]
         /\ out' = NoOut
         /\ UNCHANGED <<aArg, aFrom, sends, nAuth, reqBody>>
    ELSE /\ out' = [NoOut EXCEPT !.r = r, !.op = "Authenticate", !.err = e,
                                 !.login = login]
         /\ apc' = [apc EXCEPT ![r] = "idle"]
         /\ aArg' = [aArg EXCEPT ![r] = NoCreds]
         /\ aFrom' = [aFrom EXCEPT ![r] = ""]
         /\ UNCHANGED <<sends, nAuth, reqBody>>

\* Authenticate returns err to its caller; a failed re-authentication makes
\* DoAuthenticatedRequest return (nil, err) (auth.go:183-186).
AuthFail(r, e, login) ==
  IF aFrom[r] = "reauth"
    THEN DoReturn(r, 0, e, sends[r], nAuth[r], login)
    ELSE /\ out' = [NoOut EXCEPT !.r = r, !.op = "Authenticate", !.err = e,
                                 !.login = login]
         /\ apc' = [apc EXCEPT ![r] = "idle"]
         /\ aArg' = [aArg EXCEPT ![r] = NoCreds]
         /\ aFrom' = [aFrom EXCEPT ![r] = ""]
         /\ UNCHANGED <<sends, nAuth, reqBody>>

\* The cookies the jar of the current client holds after the login response:
\* http.Client stores the Set-Cookie headers of every response in its jar.
JarAfterLogin(b, setCookie) ==
  IF setCookie /\ b \in Hosts
    THEN [jar EXCEPT ![httpClient] = jar[httpClient] \cup {b}]
    ELSE jar

\* What the login response was: "" when none arrived, else its kind.
LoginKind(o, setCookie, bodyOK) ==
  IF o = 0 THEN ""
  ELSE IF o # 200 THEN "not 200"
  ELSE IF ~bodyOK THEN "200, unreadable body"
  ELSE IF setCookie THEN "200 with cookies"
  ELSE "200 without cookies"

\* auth.go:92-130: the login exchange. o is 0 for a transport failure, else
\* the status; setCookie says whether the response carries a Set-Cookie
\* header; bodyOK whether the body can be read. The check of lines 117-122
\* asks the jar for the cookies of baseURL. On success the first of the
\* three stores (line 130) is done.
Login(r, o, setCookie, bodyOK) ==
  /\ apc[r] = "a_login"
  /\ httpClient # NoClient
  /\ aArg[r].b = "" => o = 0
  /\ LET kind == LoginKind(o, setCookie, bodyOK) IN
     IF o = 0
       THEN /\ AuthFail(r, ErrTransport, kind)
            /\ UNCHANGED <<jar, authBaseURL>>
       ELSE /\ jar' = JarAfterLogin(aArg[r].b, setCookie)
            /\ IF o # 200
                 THEN /\ AuthFail(r, ErrLoginStatus, kind)
                      /\ UNCHANGED authBaseURL
                 ELSE IF ~bodyOK
                   THEN /\ AuthFail(r, ErrReadBody, kind)
                        /\ UNCHANGED authBaseURL
                   ELSE IF aArg[r].b \notin jar'[httpClient]
                     THEN /\ AuthFail(r, ErrNoCookies, kind)
                          /\ UNCHANGED authBaseURL
                     ELSE /\ authBaseURL' = aArg[r].b
                          /\ apc' = [apc EXCEPT ![r] = "a_store_u"]
                          /\ out' = [NoOut EXCEPT !.r = r, !.op = "login",
                                                  !.login = kind]
                          /\ UNCHANGED <<aArg, aFrom, sends, nAuth, reqBody>>
  /\ UNCHANGED <<httpClient, nJar, authUsername, authPassword>>
  /\ UNCHANGED <<timerSide, apiVars, lockVars>>

\* auth.go:131
StoreUsername(r) ==
  /\ apc[r] = "a_store_u"
  /\ authUsername' = aArg[r].u
  /\ apc' = [apc EXCEPT ![r] = "a_store_p"]
  /\ out' = NoOut
  /\ UNCHANGED <<httpClient, nJar, jar, authBaseURL, authPassword,
                 aArg, aFrom, sends, nAuth, reqBody>>
  /\ UNCHANGED <<timerSide, apiVars, lockVars>>

\* auth.go:132-134: the last store; Authenticate returns nil. After a
\* re-authentication DoAuthenticatedRequest goes on to resend (line 188).
StorePassword(r) ==
  /\ apc[r] = "a_store_p"
  /\ authPassword' = aArg[r].p
  /\ IF aFrom[r] = "reauth"
       THEN /\ apc' = [apc EXCEPT ![r] = "d_retry"]
            /\ out' = NoOut
            /\ UNCHANGED <<aArg, aFrom>>
       ELSE /\ apc' = [apc EXCEPT ![r] = "idle"]
            /\ out' = [NoOut EXCEPT !.r = r, !.op = "Authenticate"]
            /\ aArg' = [aArg EXCEPT ![r] = NoCreds]
            /\ aFrom' = [aFrom EXCEPT ![r] = ""]
  /\ UNCHANGED <<httpClient, nJar, jar, authBaseURL, authUsername, sends, nAuth, reqBody>>
  /\ UNCHANGED <<timerSide, apiVars, lockVars>>

\* Resend treating an authorization failure of the resend like one of the
\* first send: re-authenticate again.
Resend_Again(r, o) ==
  /\ apc[r] = "d_retry"
  /\ IF o = 0
       THEN DoReturn(r, 0, ErrTransport, sends[r], nAuth[r], "")
       ELSE IF isAuthError(o)
         THEN /\ sends' = [sends EXCEPT ![r] = Append(sends[r], o)]
              /\ nAuth' = [nAuth EXCEPT ![r] = nAuth[r] + 1]
              /\ apc' = [apc EXCEPT ![r] = "a_login"]
              /\ out' = NoOut
              /\ UNCHANGED <<aArg, aFrom, reqBody>>
         ELSE DoReturn(r, o, "", Append(sends[r], o), nAuth[r], "")
  /\ UNCHANGED <<httpClient, nJar, jar, authBaseURL, authUsername, authPassword>>
  /\ UNCHANGED <<timerSide, apiVars, lockVars>>

\* Resend handing back the response of the first send.
Resend_FirstResponse(r, o) ==
  /\ apc[r] = "d_retry"
  /\ IF o = 0
       THEN DoReturn(r, 0, ErrTransport, sends[r], nAuth[r], "")
       ELSE DoReturn(r, sends[r][1], "", Append(sends[r], o), nAuth[r], "")
  /\ UNCHANGED <<httpClient, nJar, jar, authBaseURL, authUsername, authPassword>>
  /\ UNCHANGED <<timerSide, apiVars, lockVars>>

\* auth.go:191-197: the resend, httpClient.Do on the same *http.Request;
\* whatever response it gets is returned. Nothing has rewound req.Body: a
\* drained buffer yields no bytes, the request announces the payload's
\* Content-Length, and the transport fails the send with 'ContentLength=n
\* with Body length 0'.
Resend(r, o) ==
  /\ apc[r] = "d_retry"
  /\ reqBody[r] = "drained" => o = 0
  /\ IF o = 0
       THEN DoReturn(r, 0, ErrTransport, sends[r], nAuth[r], "")
       ELSE DoReturn(r, o, "", Append(sends[r], o), nAuth[r], "")
  /\ UNCHANGED <<httpClient, nJar, jar, authBaseURL, authUsername, authPassword>>
  /\ UNCHANGED <<timerSide, apiVars, lockVars>>

\* ------------------------------------------------------------ adguardapi
ErrStatus == "request failed with status"

\* The status test of the three functions as an authentication test: any
\* status other than 401 and 403 counts as success.
BlockedServicesError_AuthOnly(resp, err, bodyOK) ==
  IF err # "" THEN err
  ELSE IF isAuthError(resp) THEN ErrStatus
  ELSE IF ~bodyOK THEN ErrReadBody
  ELSE ""

\* adguardapi.go:32-69, 148-176, 242-270: what GetBlockedServices,
\* UpdateBlockedServices and ResetBlockedServices return for the (resp, err)
\* DoAuthenticatedRequest gave them; "" is nil. bodyOK: the body of a 200
\* response could be read (and, in GetBlockedServices, decoded).
BlockedServicesError(resp, err, bodyOK) ==
  IF err # "" THEN err
  ELSE IF resp # 200 THEN ErrStatus
  ELSE IF ~bodyOK THEN ErrReadBody
  ELSE ""

\* A cookie held by a jar reaches its expiry.
CookieExpires(j, h) ==
  /\ h \in jar[j]
  /\ jar' = [jar EXCEPT ![j] = jar[j] \ {h}]
  /\ out' = NoOut
  /\ UNCHANGED <<httpClient, nJar, authBaseURL, authUsername, authPassword,
                 apc, aArg, aFrom, sends, nAuth, reqBody>>
  /\ UNCHANGED <<timerSide, apiVars, lockVars>>

\* ==================================================================== api
NoHArg == [kind |-> "", id |-> "", off |-> 0]

ApiInit ==
  /\ hpc = [c \in Callers |-> "none"]
  /\ hArg = [c \in Callers |-> NoHArg]
  /\ applied = FALSE
  /\ mpc = "serving"
  /\ mReset = FALSE
  /\ tMu = [t \in TimerObjs |-> ""]

\* api.go:77  "reset-blocked-services-<minutes>": requests for the same
\* number of minutes use the same timer id.
MinutesTimerID(minutes) == "a"

\* api.go:203  "reset-blocked-services-<unix seconds>": the requests served
\* within the modelled second use the same timer id, which no number of
\* minutes yields.
SecondTimerID == "b"

\* The answers of the two handlers that carry no timer (api.go:136-138,
\* 164-167, 174-179, 60-62 and 187-189, 114-117).
AnswerRequired == "400 reset_date_time is required"
AnswerFormat == "400 Invalid datetime format"
AnswerPast == "400 Deadline must be in the future"
AnswerUpdateFailed == "500 Failed to update blocked services"
AnswerNoTimer == "200 Blocked services updated (no reset timer set)"

\* api.go:148-154: the layouts time.Parse is tried with. "" is the absent
\* field, "text" a string none of the layouts parses.
Layouts == {"RFC3339", "2006-01-02T15:04:05", "2006-01-02 15:04:05"}
DateTimeTexts == Layouts \cup {"", "text"}

\* A reset_date_time: the layout its text is written in and, for a text that
\* parses, the instant it denotes as deadline - time.Now().
DateTimeRequests == [layout : DateTimeTexts, off : Offsets]
WellFormed(off) == [layout |-> "RFC3339", off |-> off]

\* api.go:133-180: the three checks made before anything else is called;
\* "" stands for a request that passes them.
DateTimeCheck(req) ==
  IF req.layout = "" THEN AnswerRequired
  ELSE IF req.layout \notin Layouts THEN AnswerFormat
  ELSE IF req.off < 0 THEN AnswerPast
  ELSE ""

\* api.go:43-56: the body parses and the handler calls UpdateBlockedServices
\* whatever reset_after_min is.
ApiUpdateBlockedServicesMin(c, minutes) ==
  /\ hpc[c] = "none"
  /\ cpc[c] = "idle"
  /\ hpc' = [hpc EXCEPT ![c] = "h_update"]
  /\ hArg' = [hArg EXCEPT ![c] = [kind |-> "min", id |-> MinutesTimerID(minutes),
                                  off |-> minutes]]
  /\ ret' = NoRet
  /\ UNCHANGED <<timerVars, callerVars, authVars, lockVars, applied, mainVars>>

\* ApiUpdateBlockedServicesDateTime calling UpdateBlockedServices before it
\* compares the deadline with the clock.
ApiUpdateBlockedServicesDateTime_UpdatesFirst(c, req) ==
  /\ hpc[c] = "none"
  /\ cpc[c] = "idle"
  /\ IF DateTimeCheck(req) \in {AnswerRequired, AnswerFormat}
       THEN /\ ret' = DateTimeCheck(req)
            /\ UNCHANGED <<hpc, hArg>>
       ELSE /\ hpc' = [hpc EXCEPT ![c] = "h_update"]
            /\ hArg' = [hArg EXCEPT ![c] =
                          [kind |-> "datetime", id |-> SecondTimerID,
                           off |-> req.off]]
            /\ ret' = NoRet
  /\ UNCHANGED <<timerVars, callerVars, authVars, lockVars, applied, mainVars>>

\* api.go:121-183: a reset_date_time that is absent, that no layout parses
\* or that lies before time.Now() (line 172) is answered 400; otherwise the
\* handler calls UpdateBlockedServices.
ApiUpdateBlockedServicesDateTime(c, req) ==
  /\ hpc[c] = "none"
  /\ cpc[c] = "idle"
  /\ IF DateTimeCheck(req) # ""
       THEN /\ ret' = DateTimeCheck(req)
            /\ UNCHANGED <<hpc, hArg>>
       ELSE /\ hpc' = [hpc EXCEPT ![c] = "h_update"]
            /\ hArg' = [hArg EXCEPT ![c] =
                          [kind |-> "datetime", id |-> SecondTimerID,
                           off |-> req.off]]
            /\ ret' = NoRet
  /\ UNCHANGED <<timerVars, callerVars, authVars, lockVars, applied, mainVars>>

\* ApiUpdated going on to the timer calls whatever UpdateBlockedServices
\* returned.
ApiUpdated_IgnoresError(c, ok, left) ==
  /\ hpc[c] = "h_update"
  /\ IF hArg[c].kind = "min" THEN left = hArg[c].off ELSE left <= hArg[c].off
  /\ IF hArg[c].kind = "min" /\ hArg[c].off <= 0
       THEN /\ hpc' = [hpc EXCEPT ![c] = "none"]
            /\ hArg' = [hArg EXCEPT ![c] = NoHArg]
            /\ ret' = AnswerNoTimer
       ELSE /\ hpc' = [hpc EXCEPT ![c] = "h_getall"]
            /\ hArg' = [hArg EXCEPT ![c].off = left]
            /\ ret' = NoRet
  /\ applied' = (applied \/ ok)
  /\ UNCHANGED <<timerVars, callerVars, authVars, lockVars, mainVars>>

\* ApiUpdated with the test of line 68 as ResetAfterMin >= 0.
ApiUpdated_ZeroMinutesTimed(c, ok, left) ==
  /\ hpc[c] = "h_update"
  /\ IF hArg[c].kind = "min" THEN left = hArg[c].off ELSE left <= hArg[c].off
  /\ IF ~ok
       THEN /\ hpc' = [hpc EXCEPT ![c] = "none"]
            /\ hArg' = [hArg EXCEPT ![c] = NoHArg]
            /\ ret' = AnswerUpdateFailed
            /\ UNCHANGED applied
       ELSE IF hArg[c].kind = "min" /\ hArg[c].off < 0
         THEN /\ hpc' = [hpc EXCEPT ![c] = "none"]
              /\ hArg' = [hArg EXCEPT ![c] = NoHArg]
              /\ ret' = AnswerNoTimer
              /\ applied' = TRUE
         ELSE /\ hpc' = [hpc EXCEPT ![c] = "h_getall"]
              /\ hArg' = [hArg EXCEPT ![c].off = left]
              /\ ret' = NoRet
              /\ applied' = TRUE
  /\ UNCHANGED <<timerVars, callerVars, authVars, lockVars, mainVars>>

\* api.go:56-68, 114-117 and 183-192: UpdateBlockedServices returns. An
\* error is answered 500. After a successful update the minutes handler
\* answers at once unless reset_after_min > 0 (line 68). The call is a round
\* trip to the upstream server: when it returns, the time left until a
\* deadline is left (not more than it was before the call).
ApiUpdated(c, ok, left) ==
  /\ hpc[c] = "h_update"
  /\ IF hArg[c].kind = "min" THEN left = hArg[c].off ELSE left <= hArg[c].off
  /\ IF ~ok
       THEN /\ hpc' = [hpc EXCEPT ![c] = "none"]
            /\ hArg' = [hArg EXCEPT ![c] = NoHArg]
            /\ ret' = AnswerUpdateFailed
            /\ UNCHANGED applied
       ELSE IF hArg[c].kind = "min" /\ hArg[c].off <= 0
         THEN /\ hpc' = [hpc EXCEPT ![c] = "none"]
              /\ hArg' = [hArg EXCEPT ![c] = NoHArg]
              /\ ret' = AnswerNoTimer
              /\ applied' = TRUE
         ELSE /\ hpc' = [hpc EXCEPT ![c] = "h_getall"]
              /\ hArg' = [hArg EXCEPT ![c].off = left]
              /\ ret' = NoRet
              /\ applied' = TRUE
  /\ UNCHANGED <<timerVars, callerVars, authVars, lockVars, mainVars>>

\* api.go:70-71 and 195-196: StopAllTimers is called only if
\* GetAllActiveTimers returned something.
ApiGetAllActiveTimers(c) ==
  /\ hpc[c] = "h_getall"
  /\ CanRLock
  /\ hpc' = [hpc EXCEPT ![c] =
               IF GetAllActiveTimers # {} THEN "h_stopall" ELSE "h_create"]
  /\ ret' = NoRet
  /\ UNCHANGED <<timerVars, callerVars, authVars, lockVars, hArg, applied, mainVars>>

\* api.go:73 and 198: the call of StopAllTimers, whose first critical
\* section (timer.go:224-232) snapshots the registry; its loop is
\* StopAllNext, and the handler goes on when it has returned.
ApiStopAllTimers(c) ==
  /\ hpc[c] = "h_stopall"
  /\ cpc[c] = "idle"
  /\ CanRLock
  /\ ops < MaxOps
  /\ ops' = ops + 1
  /\ LET snap == {timers[i] : i \in {j \in TimerIDs : timers[j] # NoTimer}} IN
       /\ cList' = [cList EXCEPT ![c] = snap]
       /\ cpc' = [cpc EXCEPT ![c] = IF snap = {} THEN "idle" ELSE "stopall"]
  /\ hpc' = [hpc EXCEPT ![c] = "h_create"]
  /\ ret' = NoRet
  /\ UNCHANGED <<timerVars, cArg, authVars, lockVars, hArg, applied, mainVars>>

\* api.go:77-111 and 203-230: the handler calls NewTimerWithDuration
\* (timer.go:29-47; the minutes are positive) or NewTimerWithDeadline
\* (timer.go:50-67, which compares the deadline with the time it is called
\* at) with a callback that is not nil. An error of the constructor is
\* answered as a success with "timer creation failed".
ApiNewTimer(c) ==
  /\ hpc[c] = "h_create"
  /\ cpc[c] = "idle"
  /\ IF hArg[c].kind = "datetime" /\ hArg[c].off < 0
       THEN Reject(c, "deadline must be in the future")
       ELSE createTimer(c, hArg[c].id, hArg[c].off)
  /\ hpc' = [hpc EXCEPT ![c] = "none"]
  /\ hArg' = [hArg EXCEPT ![c] = NoHArg]
  /\ UNCHANGED <<authVars, lockVars, applied, mainVars>>

\* The handler c was executing has answered.
Returned(c) == hpc[c] = "none" /\ cpc[c] = "idle"

\* ------------------------------------------------------------------ main
\* main is the goroutine Main of the timer package's callers.
Main == "c2"

\* main.go (App.tsx:645-646): the interrupt or terminate signal is received
\* from quit.
Signal ==
  /\ mpc = "serving"
  /\ mpc' = "m_getall"
  /\ ret' = NoRet
  /\ UNCHANGED <<timerVars, callerVars, authVars, lockVars, hpc, hArg, applied, mReset>>

\* lines 650-651 and 666-668: StopAllTimers and the reset are called only
\* if GetAllActiveTimers returned something.
MainGetAllActiveTimers ==
  /\ mpc = "m_getall"
  /\ CanRLock
  /\ mpc' = IF GetAllActiveTimers # {} THEN "m_stopall" ELSE "m_down"
  /\ ret' = NoRet
  /\ UNCHANGED <<timerVars, callerVars, authVars, lockVars, hpc, hArg, applied, mReset>>

\* line 653: the call of StopAllTimers, whose first critical section
\* (timer.go:224-232) snapshots the registry; its loop is StopAllNext.
MainStopAllTimers ==
  /\ mpc = "m_stopall"
  /\ cpc[Main] = "idle"
  /\ CanRLock
  /\ LET snap == {timers[i] : i \in {j \in TimerIDs : timers[j] # NoTimer}} IN
       /\ cList' = [cList EXCEPT ![Main] = snap]
       /\ cpc' = [cpc EXCEPT ![Main] = IF snap = {} THEN "idle" ELSE "stopall"]
  /\ mpc' = "m_reset"
  /\ ret' = NoRet
  /\ UNCHANGED <<timerVars, cArg, ops, authVars, lockVars, hpc, hArg, applied, mReset>>

\* lines 657-663: StopAllTimers has returned and main calls
\* ResetBlockedServices, whose error is only logged.
MainResetBlockedServices ==
  /\ mpc = "m_reset"
  /\ cpc[Main] = "idle"
  /\ mReset' = TRUE
  /\ mpc' = "m_down"
  /\ ret' = NoRet
  /\ UNCHANGED <<timerVars, callerVars, authVars, lockVars, hpc, hArg, applied>>

\* ============================================================= lock level
\* The timer package with every Lock and RLock as a step of its own. The
\* position of a goroutine is the function it executes and the line it is
\* about to execute ("StopTimer/Stop:152": in Stop, called by StopTimer).
NoHolder == ""
Functions == {"createTimer", "GetTimer", "StopTimer", "GetAllActiveTimers",
              "StopAllTimers", "IsActive"}

\* Positions at which a goroutine is about to call timersMu.Lock().
CallerAtLock == {"createTimer:72", "createTimer:77"}
RunAtLock == {"run:127", "run:144"}
\* Positions at which a caller is about to call timersMu.RLock().
CallerAtRLock == {"GetTimer:187", "StopTimer:195", "GetAllActiveTimers:210",
                  "StopAllTimers:225"}
\* Positions at which a goroutine is about to call t.mu.Lock().
StopAtMu == {"createTimer/Stop:152", "StopTimer/Stop:152",
             "StopAllTimers/Stop:152"}
IsActiveAtMu == {"IsActive:170", "GetAllActiveTimers/IsActive:170"}
RunAtMu == {"run:107", "run:133"}
\* Positions inside the critical sections of t.mu.
StopInMu == {"createTimer/Stop:155", "StopTimer/Stop:155",
             "StopAllTimers/Stop:155"}
IsActiveInMu == {"IsActive:172", "GetAllActiveTimers/IsActive:172"}
RunInMu == {"run:108", "run:134"}

\* sync.RWMutex: Lock waits for every holder; RLock waits for a writer that
\* holds the lock and for a writer that has called Lock and is waiting.
WriterWaits ==
  \/ \E c \in Callers : cpc[c] \in CallerAtLock
  \/ \E t \in TimerObjs : tpc[t] \in RunAtLock
LockFree == timersMu = Unlocked
RLockFree == timersMu.w = {} /\ timersMu.g = {} /\ ~WriterWaits

\* What the lock-level steps never touch.
lockFrame == <<tSup, tEarly, crashed, authVars, apiVars>>

\* A goroutine calls fn; t is the handle IsActive is called on.
Enter(c, fn, id, t) ==
  /\ cpc[c] = "idle"
  /\ ops < MaxOps
  /\ ops' = ops + 1
  /\ fn = "IsActive" => tpc[t] # "none"
  /\ cpc' = [cpc EXCEPT ![c] =
               CASE fn = "createTimer" -> "createTimer:72"
                 [] fn = "GetTimer" -> "GetTimer:187"
                 [] fn = "StopTimer" -> "StopTimer:195"
                 [] fn = "GetAllActiveTimers" -> "GetAllActiveTimers:210"
                 [] fn = "StopAllTimers" -> "StopAllTimers:225"
                 [] fn = "IsActive" -> "IsActive:170"]
  /\ cArg' = [cArg EXCEPT ![c] =
                [id |-> id, exp |-> 1,
                 found |-> IF fn = "IsActive" THEN t ELSE NoTimer,
                 sup |-> NoTimer]]
  /\ ret' = NoRet
  /\ UNCHANGED <<timerVars, cList, tMu, authVars, apiVars>>

\* timer.go:80-97 under timersMu: the new Timer is registered and its
\* goroutine started.
Register(c) ==
  LET t == nextT + 1
      id == cArg[c].id
  IN /\ nextT' = t
     /\ tId' = [tId EXCEPT ![t] = id]
     /\ tActive' = [tActive EXCEPT ![t] = TRUE]
     /\ timers' = [timers EXCEPT ![id] = t]
     /\ tpc' = [tpc EXCEPT ![t] = "select"]
     /\ cpc' = [cpc EXCEPT ![c] = "idle"]
     /\ cArg' = [cArg EXCEPT ![c] = NoArg]

\* timer.go:72-74 (the id is taken: Unlock, then Stop) or 72-90.
createTimer_Lock(c) ==
  /\ cpc[c] = "createTimer:72"
  /\ LockFree
  /\ IF timers[cArg[c].id] # NoTimer
       THEN /\ cpc' = [cpc EXCEPT ![c] = "createTimer/Stop:152"]
            /\ cArg' = [cArg EXCEPT ![c].found = timers[cArg[c].id]]
            /\ UNCHANGED <<timers, nextT, tId, tActive, tpc>>
       ELSE Register(c)
  /\ ret' = NoRet
  /\ UNCHANGED <<stopChan, timerC, cbCount, timersMu, cList, ops, tMu,
                 lockFrame>>

\* timer.go:77-90: the second critical section of createTimer.
createTimer_Relock(c) ==
  /\ cpc[c] = "createTimer:77"
  /\ LockFree
  /\ Register(c)
  /\ ret' = NoRet
  /\ UNCHANGED <<stopChan, timerC, cbCount, timersMu, cList, ops, tMu,
                 lockFrame>>

\* timer.go:152: Stop takes the Timer's lock.
Stop_Lock(c) ==
  /\ cpc[c] \in StopAtMu
  /\ tMu[cArg[c].found] = NoHolder
  /\ tMu' = [tMu EXCEPT ![cArg[c].found] = c]
  /\ cpc' = [cpc EXCEPT ![c] =
               CASE cpc[c] = "createTimer/Stop:152" -> "createTimer/Stop:155"
                 [] cpc[c] = "StopTimer/Stop:152" -> "StopTimer/Stop:155"
                 [] cpc[c] = "StopAllTimers/Stop:152" -> "StopAllTimers/Stop:155"]
  /\ ret' = NoRet
  /\ UNCHANGED <<timerVars, cArg, cList, ops, authVars, apiVars>>

\* timer.go:155-165 and the deferred Unlock of line 153: the non-blocking
\* send if the Timer is active, then the return to the caller of Stop.
Stop_Unlock(c) ==
  /\ cpc[c] \in StopInMu
  /\ stopChan' = Stop(cArg[c].found)
  /\ tMu' = [tMu EXCEPT ![cArg[c].found] = NoHolder]
  /\ cpc' = [cpc EXCEPT ![c] =
               CASE cpc[c] = "createTimer/Stop:155" -> "createTimer:77"
                 [] cpc[c] = "StopTimer/Stop:155" -> "idle"
                 [] cpc[c] = "StopAllTimers/Stop:155" -> "StopAllTimers:234"]
  /\ cArg' = [cArg EXCEPT ![c] =
                IF cpc[c] = "StopTimer/Stop:155" THEN NoArg ELSE cArg[c]]
  /\ ret' = NoRet
  /\ UNCHANGED <<timers, nextT, tId, tActive, timerC, tpc, cbCount, timersMu,
                 cList, ops, lockFrame>>

\* timer.go:187-190
GetTimer_RLock(c) ==
  /\ cpc[c] = "GetTimer:187"
  /\ RLockFree
  /\ cpc' = [cpc EXCEPT ![c] = "idle"]
  /\ cArg' = [cArg EXCEPT ![c] = NoArg]
  /\ ret' = NoRet
  /\ UNCHANGED <<timerVars, cList, ops, tMu, authVars, apiVars>>

\* timer.go:195-205: the lookup under the read lock; Stop is called after
\* RUnlock.
StopTimer_RLock(c) ==
  /\ cpc[c] = "StopTimer:195"
  /\ RLockFree
  /\ IF timers[cArg[c].id] = NoTimer
       THEN /\ cpc' = [cpc EXCEPT ![c] = "idle"]
            /\ cArg' = [cArg EXCEPT ![c] = NoArg]
            /\ ret' = "timer not found"
       ELSE /\ cpc' = [cpc EXCEPT ![c] = "StopTimer/Stop:152"]
            /\ cArg' = [cArg EXCEPT ![c].found = timers[cArg[c].id]]
            /\ ret' = NoRet
  /\ UNCHANGED <<timerVars, cList, ops, tMu, authVars, apiVars>>

\* timer.go:210-214: the read lock is taken and kept for the whole loop
\* over the registry.
GetAllActiveTimers_RLock(c) ==
  /\ cpc[c] = "GetAllActiveTimers:210"
  /\ RLockFree
  /\ timersMu' = [timersMu EXCEPT !.r = timersMu.r \cup {c}]
  /\ cList' = [cList EXCEPT ![c] = {timers[i] : i \in TimerIDs} \ {NoTimer}]
  /\ cpc' = [cpc EXCEPT ![c] = "GetAllActiveTimers:214"]
  /\ ret' = NoRet
  /\ UNCHANGED <<timers, nextT, tId, tActive, stopChan, timerC, tpc, cbCount,
                 cArg, ops, tMu, lockFrame>>

\* timer.go:214-220: the next Timer of the loop, or the deferred RUnlock
\* when the loop is over.
GetAllActiveTimers_Next(c) ==
  /\ cpc[c] = "GetAllActiveTimers:214"
  /\ IF cList[c] = {}
       THEN /\ timersMu' = [timersMu EXCEPT !.r = timersMu.r \ {c}]
            /\ cpc' = [cpc EXCEPT ![c] = "idle"]
            /\ cArg' = [cArg EXCEPT ![c] = NoArg]
            /\ UNCHANGED cList
       ELSE \E t \in cList[c] :
              /\ cList' = [cList EXCEPT ![c] = cList[c] \ {t}]
              /\ cArg' = [cArg EXCEPT ![c].found = t]
              /\ cpc' = [cpc EXCEPT ![c] = "GetAllActiveTimers/IsActive:170"]
              /\ UNCHANGED timersMu
  /\ ret' = NoRet
  /\ UNCHANGED <<timers, nextT, tId, tActive, stopChan, timerC, tpc, cbCount,
                 ops, tMu, lockFrame>>

\* timer.go:170
IsActive_Lock(c) ==
  /\ cpc[c] \in IsActiveAtMu
  /\ tMu[cArg[c].found] = NoHolder
  /\ tMu' = [tMu EXCEPT ![cArg[c].found] = c]
  /\ cpc' = [cpc EXCEPT ![c] =
               IF cpc[c] = "IsActive:170"
                 THEN "IsActive:172" ELSE "GetAllActiveTimers/IsActive:172"]
  /\ ret' = NoRet
  /\ UNCHANGED <<timerVars, cArg, cList, ops, authVars, apiVars>>

\* timer.go:171-172: the flag is read and the lock released.
IsActive_Unlock(c) ==
  /\ cpc[c] \in IsActiveInMu
  /\ tMu' = [tMu EXCEPT ![cArg[c].found] = NoHolder]
  /\ cpc' = [cpc EXCEPT ![c] =
               IF cpc[c] = "IsActive:172" THEN "idle" ELSE "GetAllActiveTimers:214"]
  /\ cArg' = [cArg EXCEPT ![c] = IF cpc[c] = "IsActive:172" THEN NoArg ELSE cArg[c]]
  /\ ret' = NoRet
  /\ UNCHANGED <<timerVars, cList, ops, authVars, apiVars>>

\* timer.go:225-230: the snapshot under the read lock.
StopAllTimers_RLock(c) ==
  /\ cpc[c] = "StopAllTimers:225"
  /\ RLockFree
  /\ cList' = [cList EXCEPT ![c] = {timers[i] : i \in TimerIDs} \ {NoTimer}]
  /\ cpc' = [cpc EXCEPT ![c] = "StopAllTimers:234"]
  /\ ret' = NoRet
  /\ UNCHANGED <<timerVars, cArg, ops, tMu, authVars, apiVars>>

\* timer.go:234-236: the next Timer of the snapshot, or the return.
StopAllTimers_Next(c) ==
  /\ cpc[c] = "StopAllTimers:234"
  /\ IF cList[c] = {}
       THEN /\ cpc' = [cpc EXCEPT ![c] = "idle"]
            /\ cArg' = [cArg EXCEPT ![c] = NoArg]
            /\ UNCHANGED cList
       ELSE \E t \in cList[c] :
              /\ cList' = [cList EXCEPT ![c] = cList[c] \ {t}]
              /\ cArg' = [cArg EXCEPT ![c].found = t]
              /\ cpc' = [cpc EXCEPT ![c] = "StopAllTimers/Stop:152"]
  /\ ret' = NoRet
  /\ UNCHANGED <<timerVars, ops, tMu, authVars, apiVars>>

\* timer.go:104-106 and 131: the select takes a case that is ready.
run_Select(t) ==
  /\ tpc[t] = "select"
  /\ \/ /\ timerC[t]
        /\ tpc' = [tpc EXCEPT ![t] = "run:107"]
        /\ UNCHANGED stopChan
     \/ /\ stopChan[t] > 0
        /\ stopChan' = [stopChan EXCEPT ![t] = 0]
        /\ tpc' = [tpc EXCEPT ![t] = "run:133"]
  /\ ret' = NoRet
  /\ UNCHANGED <<timers, nextT, tId, tActive, timerC, cbCount, timersMu,
                 callerVars, tMu, lockFrame>>

\* timer.go:107 and 133
run_Lock(t) ==
  /\ tpc[t] \in RunAtMu
  /\ tMu[t] = NoHolder
  /\ tMu' = [tMu EXCEPT ![t] = "run"]
  /\ tpc' = [tpc EXCEPT ![t] = IF tpc[t] = "run:107" THEN "run:108" ELSE "run:134"]
  /\ ret' = NoRet
  /\ UNCHANGED <<timers, nextT, tId, tActive, stopChan, timerC, cbCount,
                 timersMu, callerVars, lockFrame>>

\* run keeping the Timer's lock until it returns (Unlock deferred instead of
\* called at lines 109 and 135).
run_Unlock_Deferred(t) ==
  /\ tpc[t] \in RunInMu
  /\ tActive' = [tActive EXCEPT ![t] = FALSE]
  /\ tpc' = [tpc EXCEPT ![t] = IF tpc[t] = "run:108" THEN "run:122" ELSE "run:144"]
  /\ ret' = NoRet
  /\ UNCHANGED <<timers, nextT, tId, stopChan, timerC, cbCount, timersMu,
                 callerVars, tMu, lockFrame>>

\* timer.go:108-109 and 134-135: the flag is cleared and the lock released.
run_Unlock(t) ==
  /\ tpc[t] \in RunInMu
  /\ tActive' = [tActive EXCEPT ![t] = FALSE]
  /\ tMu' = [tMu EXCEPT ![t] = NoHolder]
  /\ tpc' = [tpc EXCEPT ![t] = IF tpc[t] = "run:108" THEN "run:122" ELSE "run:144"]
  /\ ret' = NoRet
  /\ UNCHANGED <<timers, nextT, tId, stopChan, timerC, cbCount, timersMu,
                 callerVars, lockFrame>>

\* timer.go:114-123: the callback runs with no lock held and returns, or
\* panics and is recovered, which ends run.
run_Callback(t, panics) ==
  /\ tpc[t] = "run:122"
  /\ cbCount' = [cbCount EXCEPT ![t] = cbCount[t] + 1]
  /\ tpc' = [tpc EXCEPT ![t] = IF panics THEN "panicked" ELSE "run:127"]
  /\ ret' = NoRet
  /\ UNCHANGED <<timers, nextT, tId, tActive, stopChan, timerC, timersMu,
                 callerVars, tMu, lockFrame>>

\* timer.go:127-129 and 144-146
run_Delete(t) ==
  /\ tpc[t] \in RunAtLock
  /\ LockFree
  /\ timers' = [timers EXCEPT ![tId[t]] = NoTimer]
  /\ tpc' = [tpc EXCEPT ![t] = IF tpc[t] = "run:127" THEN "fired" ELSE "cancelled"]
  /\ ret' = NoRet
  /\ UNCHANGED <<nextT, tId, tActive, stopChan, timerC, cbCount, timersMu,
                 callerVars, tMu, lockFrame>>

\* The steps of a caller after it entered a function, and of run.
callerStep(c) ==
  \/ createTimer_Lock(c) \/ createTimer_Relock(c)
  \/ Stop_Lock(c) \/ Stop_Unlock(c)
  \/ GetTimer_RLock(c) \/ StopTimer_RLock(c)
  \/ GetAllActiveTimers_RLock(c) \/ GetAllActiveTimers_Next(c)
  \/ IsActive_Lock(c) \/ IsActive_Unlock(c)
  \/ StopAllTimers_RLock(c) \/ StopAllTimers_Next(c)
runStep(t) ==
  \/ run_Select(t) \/ run_Lock(t) \/ run_Unlock(t)
  \/ \E panics \in BOOLEAN : run_Callback(t, panics)
  \/ run_Delete(t)

\* ---------------------------------------------------------- specification
vars == <<timerSide, authVars, apiVars, lockVars>>

Init == TimerInit /\ AuthInit /\ ApiInit

\* The timer package on its own: the session is left as a process started
\* with an empty environment has it.
TimerOnlyInit ==
  Init /\ authBaseURL = "" /\ authUsername = "" /\ authPassword = ""

AuthNext ==
  \/ \E r \in Clients, body \in Bodies : DoAuthenticatedRequest(r, body)
  \/ \E r \in Clients : InitHTTPClient(r)
  \/ \E r \in Clients, o \in Statuses \cup {0} : SendFirst(r, o)
  \/ \E r \in Clients, b \in URLs, u \in Users, p \in Passwords :
       Authenticate(r, b, u, p)
  \/ \E r \in Clients, o \in Statuses \cup {0}, sc \in BOOLEAN, ok \in BOOLEAN :
       Login(r, o, sc, ok)
  \/ \E r \in Clients : StoreUsername(r)
  \/ \E r \in Clients : StorePassword(r)
  \/ \E r \in Clients, o \in Statuses \cup {0} : Resend(r, o)
  \/ \E j \in JarIds, h \in Hosts : CookieExpires(j, h)

AuthSpec == Init /\ [][AuthNext]_vars

TimerNext ==
  \/ \E c \in Callers, id \in TimerIDs, m \in ValidMinutes :
       NewTimerWithDuration(c, id, m, "func")
  \/ \E c \in Callers, id \in TimerIDs, off \in ValidOffsets :
       NewTimerWithDeadline(c, id, off, "func")
  \/ \E c \in Callers : createTimerStop(c)
  \/ \E c \in Callers : createTimerInstall(c)
  \/ \E c \in Callers, id \in TimerIDs : StopTimer(c, id)
  \/ \E c \in Callers : StopTimerStop(c)
  \/ \E c \in Callers : StopAllTimers(c)
  \/ \E c \in Callers : StopAllNext(c)
  \/ \E t \in TimerObjs : TimerFires(t)
  \/ \E t \in TimerObjs : RunExpired(t)
  \/ \E t \in TimerObjs : RunCallbackReturn(t)
  \/ \E t \in TimerObjs : RunCallbackPanic(t)
  \/ \E t \in TimerObjs : RunStopped(t)
  \/ \E t \in TimerObjs : RunStoppedRemove(t)

TimerSpec == TimerOnlyInit /\ [][TimerNext]_vars

\* The two timed-update handlers, served concurrently, over the timer
\* package. The callback of every Timer is the reset closure of api.go:82-91
\* / 210-219, which logs an error of ResetBlockedServices and returns.
ApiNext ==
  \/ \E c \in Callers, m \in ValidMinutes : ApiUpdateBlockedServicesMin(c, m)
  \/ \E c \in Callers, off \in Offsets :
       ApiUpdateBlockedServicesDateTime(c, WellFormed(off))
  \/ \E c \in Callers, ok \in BOOLEAN, left \in Offsets : ApiUpdated(c, ok, left)
  \/ \E c \in Callers : ApiGetAllActiveTimers(c)
  \/ \E c \in Callers : ApiStopAllTimers(c)
  \/ \E c \in Callers : ApiNewTimer(c)
  \/ \E c \in Callers : createTimerStop(c)
  \/ \E c \in Callers : createTimerInstall(c)
  \/ \E c \in Callers : StopAllNext(c)
  \/ \E t \in TimerObjs : TimerFires(t)
  \/ \E t \in TimerObjs : RunExpired(t)
  \/ \E t \in TimerObjs : RunCallbackReturn(t)
  \/ \E t \in TimerObjs : RunStopped(t)
  \/ \E t \in TimerObjs : RunStoppedRemove(t)

ApiSpec == TimerOnlyInit /\ [][ApiNext]_vars

\* One request at a time, with every kind of body the two handlers tell
\* apart, over the timer package.
Handlers == {"c1"}

HandlerNext ==
  \/ \E c \in Handlers, m \in Offsets : ApiUpdateBlockedServicesMin(c, m)
  \/ \E c \in Handlers, req \in DateTimeRequests :
       ApiUpdateBlockedServicesDateTime(c, req)
  \/ \E c \in Handlers, ok \in BOOLEAN, left \in Offsets : ApiUpdated(c, ok, left)
  \/ \E c \in Handlers : ApiGetAllActiveTimers(c)
  \/ \E c \in Handlers : ApiStopAllTimers(c)
  \/ \E c \in Handlers : ApiNewTimer(c)
  \/ \E c \in Handlers : createTimerStop(c)
  \/ \E c \in Handlers : createTimerInstall(c)
  \/ \E c \in Handlers : StopAllNext(c)
  \/ \E t \in TimerObjs : TimerFires(t)
  \/ \E t \in TimerObjs : RunExpired(t)
  \/ \E t \in TimerObjs : RunCallbackReturn(t)
  \/ \E t \in TimerObjs : RunStopped(t)
  \/ \E t \in TimerObjs : RunStoppedRemove(t)

HandlerSpec == TimerOnlyInit /\ [][HandlerNext]_vars

\* The timer package called with every kind of argument, valid or not, by
\* one caller goroutine that uses one id.
ValidationCallers == {"c1"}
ValidationIDs == {"a"}

ValidationNext ==
  \/ \E c \in ValidationCallers, id \in ValidationIDs, m \in Offsets, cb \in Callbacks :
       NewTimerWithDuration(c, id, m, cb)
  \/ \E c \in ValidationCallers, id \in ValidationIDs, off \in Offsets, cb \in Callbacks :
       NewTimerWithDeadline(c, id, off, cb)
  \/ \E c \in ValidationCallers : createTimerStop(c)
  \/ \E c \in ValidationCallers : createTimerInstall(c)
  \/ \E c \in ValidationCallers, id \in ValidationIDs : StopTimer(c, id)
  \/ \E c \in ValidationCallers : StopTimerStop(c)
  \/ \E t \in TimerObjs : TimerFires(t)
  \/ \E t \in TimerObjs : RunExpired(t)
  \/ \E t \in TimerObjs : RunCallbackReturn(t)
  \/ \E t \in TimerObjs : RunCallbackPanic(t)
  \/ \E t \in TimerObjs : RunStopped(t)
  \/ \E t \in TimerObjs : RunStoppedRemove(t)

ValidationSpec == TimerOnlyInit /\ [][ValidationNext]_vars

\* Creation, replacement and StopAllTimers with the Go scheduler's
\* guarantees: a goroutine that can take a step eventually takes one (a
\* ready select case is taken, a callback that terminates is left, an
\* uncontended lock is acquired, the loop of StopAllTimers goes on). Nothing
\* is assumed about the runtime timers: a duration may be arbitrarily long.
\* The callbacks return.
\* One goroutine creates Timers while the other calls StopAllTimers.
Creators == {"c1"}
Sweepers == {"c2"}

SweepNext ==
  \/ \E c \in Creators, id \in TimerIDs, m \in ValidMinutes :
       NewTimerWithDuration(c, id, m, "func")
  \/ \E c \in Creators : createTimerStop(c)
  \/ \E c \in Creators : createTimerInstall(c)
  \/ \E c \in Sweepers : StopAllTimers(c)
  \/ \E c \in Sweepers : StopAllNext(c)
  \/ \E t \in TimerObjs : TimerFires(t)
  \/ \E t \in TimerObjs : RunExpired(t)
  \/ \E t \in TimerObjs : RunCallbackReturn(t)
  \/ \E t \in TimerObjs : RunStopped(t)
  \/ \E t \in TimerObjs : RunStoppedRemove(t)

\* main receiving the signal while one goroutine creates and replaces Timers
\* under one id.
ShutdownNext ==
  \/ \E c \in Creators, id \in ValidationIDs, m \in ValidMinutes :
       NewTimerWithDuration(c, id, m, "func")
  \/ \E c \in Creators : createTimerStop(c)
  \/ \E c \in Creators : createTimerInstall(c)
  \/ Signal
  \/ MainGetAllActiveTimers
  \/ MainStopAllTimers
  \/ StopAllNext(Main)
  \/ MainResetBlockedServices
  \/ \E t \in TimerObjs : TimerFires(t)
  \/ \E t \in TimerObjs : RunExpired(t)
  \/ \E t \in TimerObjs : RunCallbackReturn(t)
  \/ \E t \in TimerObjs : RunStopped(t)
  \/ \E t \in TimerObjs : RunStoppedRemove(t)

ShutdownSpec == TimerOnlyInit /\ [][ShutdownNext]_vars

\* Every function of the timer package called by two goroutines, each lock
\* operation a step. Every call and every Timer goroutine has finitely many
\* steps, so a goroutine waits forever only if a state is reached in which
\* it waits and no step of any call or Timer goroutine is possible.
LockIDs == {"a"}

LockNext ==
  \/ \E c \in Callers, fn \in Functions, id \in LockIDs, t \in TimerObjs :
       Enter(c, fn, id, t)
  \/ \E c \in Callers : createTimer_Lock(c)
  \/ \E c \in Callers : createTimer_Relock(c)
  \/ \E c \in Callers : Stop_Lock(c)
  \/ \E c \in Callers : Stop_Unlock(c)
  \/ \E c \in Callers : GetTimer_RLock(c)
  \/ \E c \in Callers : StopTimer_RLock(c)
  \/ \E c \in Callers : GetAllActiveTimers_RLock(c)
  \/ \E c \in Callers : GetAllActiveTimers_Next(c)
  \/ \E c \in Callers : IsActive_Lock(c)
  \/ \E c \in Callers : IsActive_Unlock(c)
  \/ \E c \in Callers : StopAllTimers_RLock(c)
  \/ \E c \in Callers : StopAllTimers_Next(c)
  \/ \E t \in TimerObjs : TimerFires(t)
  \/ \E t \in TimerObjs : run_Select(t)
  \/ \E t \in TimerObjs : run_Lock(t)
  \/ \E t \in TimerObjs : run_Unlock(t)
  \/ \E t \in TimerObjs, panics \in BOOLEAN : run_Callback(t, panics)
  \/ \E t \in TimerObjs : run_Delete(t)

LockSpec == TimerOnlyInit /\ [][LockNext]_vars

\* Creation and replacement by one goroutine under one id, with callbacks
\* that return and callbacks that panic.
ExpiryNext ==
  \/ \E c \in Creators, id \in ValidationIDs, m \in ValidMinutes :
       NewTimerWithDuration(c, id, m, "func")
  \/ \E c \in Creators : createTimerStop(c)
  \/ \E c \in Creators : createTimerInstall(c)
  \/ \E t \in TimerObjs : TimerFires(t)
  \/ \E t \in TimerObjs : RunExpired(t)
  \/ \E t \in TimerObjs : RunCallbackReturn(t)
  \/ \E t \in TimerObjs : RunCallbackPanic(t)
  \/ \E t \in TimerObjs : RunStopped(t)
  \/ \E t \in TimerObjs : RunStoppedRemove(t)

\* timer.go:104-148: the next step of the goroutine of t once it can leave
\* its select.
run(t) ==
  \/ RunExpired(t)
  \/ RunStopped(t)
  \/ RunCallbackReturn(t)
  \/ RunCallbackPanic(t)
  \/ RunStoppedRemove(t)

SchedulerFairness ==
  /\ \A c \in Sweepers : WF_vars(StopAllNext(c))
  /\ \A t \in TimerObjs : WF_vars(run(t))

SweepSpec == TimerOnlyInit /\ [][SweepNext]_vars /\ SchedulerFairness

\* Every runtime timer reaches its expiry in finite time.
TimerFairness == \A t \in TimerObjs : WF_vars(TimerFires(t))

ExpirySpec ==
  /\ TimerOnlyInit
  /\ [][ExpiryNext]_vars
  /\ \A c \in Creators : WF_vars(createTimerStop(c) \/ createTimerInstall(c))
  /\ \A t \in TimerObjs : WF_vars(run(t))
  /\ TimerFairness

TypeOK ==
  /\ timers \in [TimerIDs -> 0..MaxOps]
  /\ nextT \in 0..MaxOps
  /\ \A t \in TimerObjs : stopChan[t] \in 0..1

\* ================================================================== claims
\* B is the Timer most recently registered under its id.
Newest(B) == \A u \in TimerObjs : (u > B /\ tpc[u] # "none") => tId[u] # tId[B]

\* C1: when a Timer B is registered under an id that held an active Timer A,
\* then once the call has returned and A's goroutine has finished, the
\* registry maps the id to B and B is the active Timer of that id (as long
\* as B is still waiting and nothing newer was registered under the id).
C1_ReplaceOnCollision ==
  \A B \in TimerObjs :
    (tSup[B] # NoTimer /\ Finished(tSup[B]) /\ tpc[B] = "select" /\ Newest(B))
      => /\ GetTimer(tId[B]).exists
         /\ GetTimer(tId[B]).timer = B
         /\ tId[B] \in GetAllActiveTimers

\* A was found active in the registry by a createTimer call that has since
\* registered its own Timer under the id.
Superseded(A) == \E B \in TimerObjs : tpc[B] # "none" /\ tSup[B] = A

\* C2: once a Timer has been superseded, its callback is never invoked.
C2_SupersededNeverFires ==
  [][\A A \in TimerObjs : Superseded(A) => cbCount'[A] = cbCount[A]]_vars

\* C3: a Timer whose expiry elapsed and whose callback returned normally has
\* run its callback exactly once and is inactive, and at the step its
\* goroutine finishes its id is absent from the registry and from
\* GetAllActiveTimers; the registry never refers to it again.
C3_FiredOnceAndRemoved ==
  /\ [](\A t \in TimerObjs :
          tpc[t] = "fired" =>
            /\ cbCount[t] = 1
            /\ ~tActive[t]
            /\ GetTimer(tId[t]).timer # t)
  /\ [][\A t \in TimerObjs :
          (tpc[t] # "fired" /\ tpc'[t] = "fired") =>
            /\ ~GetTimer(tId[t]).exists'
            /\ tId[t] \notin GetAllActiveTimers']_vars

C3_Witness ==
  \E t \in TimerObjs :
    tpc[t] = "fired" /\ stopChan[t] = 0 /\ cbCount[t] = 1 /\ ~GetTimer(tId[t]).exists

\* C4: one call of DoAuthenticatedRequest makes at most one Authenticate
\* call and at most two sends; a second 401/403 is handed back as it is; and
\* every step of a call moves it forward in a fixed order of positions, so a
\* call cannot loop.
Rank(pc) ==
  CASE pc = "idle" -> 0
    [] pc = "d_init" -> 1
    [] pc = "d_send" -> 2
    [] pc = "a_init" -> 3
    [] pc = "a_login" -> 4
    [] pc = "a_store_u" -> 5
    [] pc = "a_store_p" -> 6
    [] pc = "d_retry" -> 7

C4_BoundedRetry ==
  /\ [](/\ \A r \in Clients : nAuth[r] <= 1 /\ Len(sends[r]) <= 2
        /\ out.nAuth <= 1
        /\ Len(out.sends) <= 2
        /\ (Len(out.sends) = 2 /\ isAuthError(out.sends[2]))
             => (out.resp = out.sends[2] /\ out.err = ""))
  /\ [][\A r \in Clients :
          apc'[r] # apc[r] => (apc'[r] = "idle" \/ Rank(apc'[r]) > Rank(apc[r]))]_vars

C4_Witness ==
  /\ out.op = "DoAuthenticatedRequest"
  /\ Len(out.sends) = 2
  /\ isAuthError(out.sends[2])
  /\ out.nAuth = 1
  /\ out.resp = out.sends[2]

\* C5: a call whose first send was answered 401 or 403, that re-authenticated
\* and whose resend was answered 200 hands back that 200 with no error,
\* after exactly one Authenticate call and exactly two sends.
C5_RetrySucceeds ==
  /\ \A r \in Clients :
       apc[r] = "d_retry" =>
         (nAuth[r] = 1 /\ Len(sends[r]) = 1 /\ isAuthError(sends[r][1]))
  /\ (out.op = "DoAuthenticatedRequest" /\ Len(out.sends) = 2 /\ out.sends[2] = 200)
       => /\ isAuthError(out.sends[1])
          /\ out.resp = 200
          /\ out.err = ""
          /\ out.nAuth = 1

C5_Witness ==
  /\ out.op = "DoAuthenticatedRequest"
  /\ out.sends = <<401, 200>>
  /\ out.resp = 200
  /\ out.err = ""
  /\ out.nAuth = 1

\* C6: a 401 or 403 received while one of base URL, username, password is
\* empty makes the call return 'authentication required but no credentials
\* available' and no response, without an Authenticate call and without a
\* second send.
NoCredentialsStored == authBaseURL = "" \/ authUsername = "" \/ authPassword = ""

C6_NoCredentialsNoReauth ==
  [][\A r \in Clients :
       (apc[r] = "d_send" /\ apc'[r] # "d_send" /\ NoCredentialsStored) =>
         /\ apc'[r] = "idle"
         /\ out'.r = r
         /\ (Len(out'.sends) = 1 /\ isAuthError(out'.sends[1])) =>
              /\ out'.err = ErrNoCredentials
              /\ out'.resp = 0
              /\ out'.nAuth = 0
              /\ nJar' = nJar /\ jar' = jar]_vars

C6_Witness ==
  /\ out.op = "DoAuthenticatedRequest"
  /\ out.err = ErrNoCredentials
  /\ out.sends = <<403>>
  /\ out.nAuth = 0
  /\ NoCredentialsStored

\* C7: a login response with status 200 and no cookies makes Authenticate
\* fail with 'no cookies received from authentication' and leaves the
\* stored credentials as they were.
C7_NoCookiesFails ==
  [][out'.login = "200 without cookies" =>
       /\ out'.err = ErrNoCookies
       /\ authBaseURL' = authBaseURL
       /\ authUsername' = authUsername
       /\ authPassword' = authPassword]_vars

\* C8: every key of the registry maps to a Timer whose goroutine has not
\* finished.
C8_NoDanglingEntries ==
  \A id \in TimerIDs : GetTimer(id).exists => ~Finished(GetTimer(id).timer)

\* C9: a panic of a callback never leaves the goroutine, and the step that
\* recovers it changes neither the registry nor anything of another Timer.
C9_PanicContained ==
  /\ [](~crashed)
  /\ [][\A t \in TimerObjs :
          (tpc[t] = "in_cb" /\ tpc'[t] = "panicked") =>
            /\ timers' = timers
            /\ \A u \in TimerObjs \ {t} :
                 /\ tActive'[u] = tActive[u]
                 /\ tpc'[u] = tpc[u]
                 /\ stopChan'[u] = stopChan[u]
                 /\ timerC'[u] = timerC[u]
                 /\ cbCount'[u] = cbCount[u]]_vars

C9_Witness ==
  \E t \in TimerObjs, u \in TimerObjs :
    /\ t # u
    /\ tpc[t] = "panicked"
    /\ tpc[u] = "in_cb"
    /\ ~crashed

\* C10: a registry entry is deleted only by the termination path of the
\* Timer it refers to.
C10_OnlyOwnRemoval ==
  [][\A id \in TimerIDs :
       (timers[id] # NoTimer /\ timers'[id] = NoTimer) =>
         /\ tpc[timers[id]] \in {"in_cb", "stop_del"}
         /\ tpc'[timers[id]] \in {"fired", "cancelled"}]_vars

\* t is waiting in its select and no Stop has signalled it: it has neither
\* fired nor been stopped.
Pending(t) == tpc[t] = "select" /\ stopChan[t] = 0

\* C11: a Timer created successfully stays registered under its id, and the
\* id stays in GetAllActiveTimers, in every state until that Timer fires or
\* is stopped (both constructors hand over to createTimer, so this is stated
\* for every Timer createTimer has made).
C11_ActiveUntilFiredOrStopped ==
  \A t \in TimerObjs :
    Pending(t) =>
      /\ GetTimer(tId[t]).exists
      /\ GetTimer(tId[t]).timer = t
      /\ tId[t] \in GetAllActiveTimers

\* C12: the goroutine of a Timer takes one of the two cases of its select
\* and takes it once: the callback runs at most once, a Timer on the
\* cancellation path has not run its callback, a Timer on the expiry path
\* has run it exactly once, no step leads from one path to the other, and a
\* goroutine that has finished takes no further step.
ExpiryPath == {"in_cb", "fired", "panicked"}
CancelPath == {"stop_del", "cancelled"}

C12_OnePathOnce ==
  /\ [](\A t \in TimerObjs :
          /\ cbCount[t] <= 1
          /\ tpc[t] \in CancelPath => cbCount[t] = 0
          /\ tpc[t] \in ExpiryPath => cbCount[t] = 1
          /\ tpc[t] \in {"none", "select"} => cbCount[t] = 0)
  /\ [][\A t \in TimerObjs :
          /\ tpc[t] \in ExpiryPath => tpc'[t] \in ExpiryPath
          /\ tpc[t] \in CancelPath => tpc'[t] \in CancelPath
          /\ Finished(t) => tpc'[t] = tpc[t]]_vars

\* Both cases of the select were ready for one Timer, which took the expiry
\* case and left the signal in the channel, and another took the stop case.
C12_Witness ==
  \E t \in TimerObjs, u \in TimerObjs :
    /\ tpc[t] = "fired" /\ stopChan[t] = 1 /\ cbCount[t] = 1
    /\ tpc[u] = "cancelled" /\ cbCount[u] = 0

\* C13: a Timer that got its stop signal before its expiry had elapsed does
\* not take the expiry case of its select, whenever its goroutine is
\* scheduled afterwards: its callback is not invoked.
C13_StoppedBeforeExpiryNeverFires ==
  [][\A t \in TimerObjs :
       (tpc[t] = "select" /\ tEarly[t]) =>
         /\ tpc'[t] \in {"select", "stop_del"}
         /\ cbCount'[t] = cbCount[t]]_vars

ErrDeadline == "deadline must be in the future"
ErrDuration == "duration must be greater than 0 minutes"
ErrNilCallback == "callback function cannot be nil"
ValidationErrors == {ErrDeadline, ErrDuration, ErrNilCallback}

\* C14: a call of NewTimerWithDeadline with a deadline in the past or equal
\* to the current instant returns the validation error and changes nothing
\* of the registry, the Timers or the caller; and every Timer that is
\* created starts with its expiry still ahead.
C14_DeadlineNotAfterNowRejected ==
  [][/\ \A c \in ValidationCallers, id \in ValidationIDs, cb \in Callbacks :
          \A off \in {o \in Offsets : o <= 0} :
            NewTimerWithDeadline(c, id, off, cb) =>
              /\ ret' \in ValidationErrors
              /\ UNCHANGED <<timerVars, callerVars>>
     /\ \A t \in TimerObjs :
          (tpc[t] = "none" /\ tpc'[t] = "select") => ~timerC'[t]]_vars

\* C15: a call of NewTimerWithDuration with minutes <= 0 returns the
\* validation error and changes nothing: the registry, every Timer (its
\* flag, its channel, its goroutine), the number of Timers and the caller
\* are as before; and whenever that error is returned nothing has changed.
C15_NonPositiveDurationRejected ==
  [][/\ \A c \in ValidationCallers, id \in ValidationIDs, cb \in Callbacks :
          \A m \in {o \in Offsets : o <= 0} :
            NewTimerWithDuration(c, id, m, cb) =>
              /\ ret' = ErrDuration
              /\ UNCHANGED <<timerVars, callerVars>>
     /\ ret' = ErrDuration => UNCHANGED <<timerVars, callerVars>>]_vars

\* The error was returned while an active Timer is registered.
C15_Witness ==
  /\ ret = ErrDuration
  /\ GetAllActiveTimers # {}

ErrNotFound == "timer not found"

\* The caller steps that consist of a call of Timer.Stop.
StopCalls == {"ct_stop", "st_stop", "stopall"}

\* C16: StopTimer on an id the registry does not hold returns the not-found
\* error and changes nothing; StopTimer on an id whose Timer is inactive
\* returns no error, sends no signal and changes nothing; no call of
\* Timer.Stop yields an error.
C16_StopTimerErrors ==
  [][/\ \A c \in ValidationCallers, id \in ValidationIDs :
          (StopTimer(c, id) /\ ~GetTimer(id).exists) =>
            /\ ret' = ErrNotFound
            /\ UNCHANGED <<timerVars, callerVars>>
     /\ ret' = ErrNotFound => UNCHANGED <<timerVars, callerVars>>
     /\ \A c \in Callers :
          (cpc[c] = "st_stop" /\ cpc'[c] # "st_stop" /\ ~tActive[cArg[c].found]) =>
            /\ ret' = ""
            /\ cpc'[c] = "idle"
            /\ UNCHANGED timerVars
     /\ \A c \in Callers :
          (cpc[c] \in StopCalls /\ <<cpc[c], cList[c]>>' # <<cpc[c], cList[c]>>)
            => ret' = ""]_vars

\* StopTimer has found a Timer whose callback panicked and is about to call
\* Stop on it.
C16_Witness ==
  \E c \in Callers :
    /\ cpc[c] = "st_stop"
    /\ ~tActive[cArg[c].found]
    /\ tpc[cArg[c].found] = "panicked"

\* C17: every call of Timer.Stop can take its step and return, whatever the
\* channel holds and whatever state the Timer is in; a Timer's channel never
\* holds more than one signal; and a Stop on a Timer whose signal is already
\* pending, or that is no longer active, changes nothing.
C17_StopNeverBlocks ==
  /\ [](\A t \in TimerObjs : stopChan[t] <= 1)
  /\ [](\A c \in Callers :
          /\ cpc[c] = "ct_stop" => ENABLED createTimerStop(c)
          /\ cpc[c] = "st_stop" => ENABLED StopTimerStop(c)
          /\ cpc[c] = "stopall" => ENABLED StopAllNext(c))
  /\ [][\A c \in Callers :
          (/\ cpc[c] \in {"ct_stop", "st_stop"}
           /\ cpc'[c] # cpc[c]
           /\ (stopChan[cArg[c].found] = 1 \/ ~tActive[cArg[c].found]))
            => UNCHANGED timerVars]_vars

\* One caller's Stop has put the signal in the channel and another caller
\* is about to call Stop on the same Timer, still active.
C17_Witness ==
  \E c \in Callers :
    /\ cpc[c] = "st_stop"
    /\ stopChan[cArg[c].found] = 1
    /\ tActive[cArg[c].found]

\* The stored credentials and the session.
session == <<httpClient, nJar, jar, authBaseURL, authUsername, authPassword>>

\* C18: a send that fails at the transport level ends the call at once with
\* that error and no response: after a failing first send there is no
\* Authenticate call and no second send, after a failing resend no further
\* attempt; a call leaves its first send for a login only with a 401 or 403
\* in hand, and leaves its resend only by returning.
C18_TransportErrorReturned ==
  [][\A r \in Clients :
       /\ SendFirst(r, 0) =>
            /\ apc'[r] = "idle"
            /\ out' = [NoOut EXCEPT !.r = r, !.op = "DoAuthenticatedRequest",
                                    !.err = ErrTransport]
            /\ UNCHANGED session
       /\ Resend(r, 0) =>
            /\ apc'[r] = "idle"
            /\ out'.r = r /\ out'.err = ErrTransport /\ out'.resp = 0
            /\ out'.sends = sends[r] /\ Len(out'.sends) = 1
            /\ out'.nAuth = 1
       /\ (apc[r] = "d_send" /\ apc'[r] # "d_send") =>
            \/ apc'[r] = "idle"
            \/ /\ apc'[r] = "a_login"
               /\ Len(sends'[r]) = 1
               /\ sends'[r][1] \in {401, 403}
       /\ (apc[r] = "d_retry" /\ apc'[r] # "d_retry") => apc'[r] = "idle"]_vars

C18_Witness ==
  /\ out.op = "DoAuthenticatedRequest"
  /\ out.err = ErrTransport
  /\ out.resp = 0
  /\ out.sends = <<>>
  /\ out.nAuth = 0
  /\ ~NoCredentialsStored

\* C19: when the Authenticate call made after a 401 or 403 fails, the call
\* of DoAuthenticatedRequest returns the error of Authenticate and no
\* response, having sent the request once; it goes on only after a login
\* answered 200.
LoginErrors == {ErrTransport, ErrLoginStatus, ErrReadBody, ErrNoCookies}

C19_ReauthFailureReturned ==
  [][\A r \in Clients :
       (apc[r] = "a_login" /\ aFrom[r] = "reauth" /\ apc'[r] # "a_login") =>
         \/ /\ apc'[r] = "a_store_u"
            /\ out'.login \in {"200 with cookies", "200 without cookies"}
         \/ /\ apc'[r] = "idle"
            /\ out'.r = r
            /\ out'.op = "DoAuthenticatedRequest"
            /\ out'.err \in LoginErrors
            /\ out'.login = "" => out'.err = ErrTransport
            /\ out'.login = "not 200" => out'.err = ErrLoginStatus
            /\ out'.login = "200, unreadable body" => out'.err = ErrReadBody
            /\ out'.login \in {"200 with cookies", "200 without cookies"}
                 => out'.err = ErrNoCookies
            /\ out'.resp = 0
            /\ out'.sends = sends[r] /\ Len(out'.sends) = 1
            /\ out'.nAuth = 1]_vars

C19_Witness ==
  /\ out.op = "DoAuthenticatedRequest"
  /\ out.err = ErrNoCookies
  /\ out.login = "200 without cookies"
  /\ out.resp = 0
  /\ out.sends = <<401>>
  /\ out.nAuth = 1

\* C20: a first response whose status is neither 401 nor 403 is handed back
\* as it is, with no error, after that one send and without an Authenticate
\* call; the stored credentials and the session are left as they were.
C20_OtherStatusPassedThrough ==
  [][\A r \in Clients :
       /\ \A o \in Statuses \ {401, 403} :
            SendFirst(r, o) =>
              /\ apc'[r] = "idle"
              /\ out' = [NoOut EXCEPT !.r = r, !.op = "DoAuthenticatedRequest",
                                      !.resp = o, !.sends = <<o>>]
       /\ (/\ apc[r] = "d_send" /\ apc'[r] = "idle"
           /\ Len(out'.sends) = 1
           /\ out'.sends[1] \notin {401, 403}) =>
            /\ out'.resp = out'.sends[1]
            /\ out'.err = ""
            /\ out'.nAuth = 0
            /\ UNCHANGED session]_vars

C20_Witness ==
  /\ out.op = "DoAuthenticatedRequest"
  /\ out.sends = <<500>>
  /\ out.resp = 500
  /\ out.err = ""
  /\ out.nAuth = 0
  /\ ~NoCredentialsStored

\* The stored credentials as a triple, and the arguments of the Authenticate
\* call client r is in.
stored == [b |-> authBaseURL, u |-> authUsername, p |-> authPassword]

\* C21: the stored credentials change only in a successful Authenticate
\* call, and when such a call returns they are exactly its three arguments;
\* a failing Authenticate and a DoAuthenticatedRequest without a successful
\* re-authentication leave them as they were.
C21_CredentialsStoredAtomically ==
  [][/\ \A r \in Clients :
          (apc[r] = "a_store_p" /\ apc'[r] # "a_store_p") => stored' = aArg[r]
     /\ stored' # stored =>
          \E r \in Clients :
            /\ apc[r] \in {"a_login", "a_store_u", "a_store_p"}
            /\ apc'[r] # apc[r]
            /\ out'.err = ""
     /\ out'.err # "" => stored' = stored]_vars

\* C22: right after an Authenticate call has returned successfully, a
\* DoAuthenticatedRequest that receives 401 or 403 goes on to an
\* Authenticate call with the stored triple; it does not fail for lack of
\* credentials.
C22_StoredCredentialsReusable ==
  [][(out.op = "Authenticate" /\ out.err = "") =>
       \A r \in Clients :
         (/\ apc[r] = "d_send" /\ apc'[r] # "d_send"
          /\ \/ apc'[r] = "a_login"
             \/ (Len(out'.sends) = 1 /\ out'.sends[1] \in {401, 403})) =>
           /\ apc'[r] = "a_login"
           /\ aArg'[r] = stored
           /\ out'.err # ErrNoCredentials]_vars

\* C29: the shared client and its jar are created at most once, and once
\* set the client is never replaced, so a jar that got the cookies of a
\* login stays the jar in use.
C29_ClientCreatedOnce ==
  /\ [](nJar <= 1)
  /\ [][httpClient # NoClient => httpClient' = httpClient]_vars

\* C28: when a call is about to resend after a successful
\* re-authentication, the request is what the first send transmitted: its
\* Body is as it was given to the call (no body, or the payload unread).
C28_ResendSameRequest ==
  \A r \in Clients : apc[r] = "d_retry" => reqBody[r] \in Bodies

\* C23: the goroutine of a Timer whose callback is executing does not hold
\* timersMu, a caller that createTimer has brought to its call of Stop does
\* not hold it either, and while a callback executes an idle caller can
\* start a registry operation (here StopAllTimers, which takes the read
\* lock).
C23_RegistryLockNotHeldAcrossCallback ==
  /\ \A t \in TimerObjs : tpc[t] = "in_cb" => t \notin timersMu.g
  /\ \A c \in Callers :
       cpc[c] = "ct_stop" => c \notin (timersMu.r \cup timersMu.w)
  /\ \A t \in TimerObjs, c \in Callers :
       (tpc[t] = "in_cb" /\ cpc[c] = "idle" /\ ops < MaxOps)
         => ENABLED StopAllTimers(c)

\* A callback is executing while createTimer, called for the same id, is at
\* its call of Stop on the Timer it found.
C23_Witness ==
  \E t \in TimerObjs, c \in Callers :
    /\ tpc[t] = "in_cb"
    /\ cpc[c] = "ct_stop"
    /\ cArg[c].found = t

\* t is active and a StopAllTimers call still has it in its snapshot, or a
\* stop signal for it is in its channel.
Signalled(t) ==
  tActive[t] /\ (stopChan[t] > 0 \/ \E c \in Sweepers : t \in cList[c])

\* C24: StopAllTimers takes as its snapshot exactly the Timers the registry
\* holds at that moment, each later step of the call sends a stop signal at
\* most to a Timer of the snapshot (a Timer registered afterwards gets none
\* from this call), an active Timer of the snapshot stays due to be stopped
\* until it is inactive, the Timers due to be stopped eventually all are
\* inactive, and the call returns.
C24_StopAllSweepsSnapshot ==
  /\ [][\A c \in Sweepers :
          /\ (cpc[c] = "idle" /\ cpc'[c] = "stopall") =>
               cList'[c] = {timers[i] : i \in {j \in TimerIDs : timers[j] # NoTimer}}
          /\ (cpc[c] = "stopall" /\ cList'[c] # cList[c]) =>
               /\ cList'[c] \subseteq cList[c]
               /\ \A t \in TimerObjs :
                    stopChan'[t] > stopChan[t] => t \in cList[c]]_vars
  /\ [][\A t \in TimerObjs :
          (Signalled(t) /\ ~Signalled(t)') => ~tActive'[t]]_vars
  /\ (\E t \in TimerObjs : Signalled(t)) ~> (\A t \in TimerObjs : ~Signalled(t))
  /\ \A c \in Sweepers : cpc[c] = "stopall" ~> cpc[c] = "idle"

\* A StopAllTimers call is in its loop while an active Timer that was
\* registered after the snapshot (it is newer than every Timer still to be
\* stopped) has no stop signal.
C24_Witness ==
  \E c \in Callers, u \in TimerObjs :
    /\ cpc[c] = "stopall"
    /\ tpc[u] = "select" /\ tActive[u] /\ stopChan[u] = 0
    /\ u \notin cList[c]
    /\ \A t \in cList[c] : u > t
    /\ \E t \in cList[c] : tActive[t]

\* C25: every Timer goroutine that has been started eventually returns from
\* run, on the expiry path (callback returned or panicked) or on the
\* cancellation path.
C25_GoroutineExits ==
  \A t \in TimerObjs : tpc[t] # "none" ~> Finished(t)

\* Goroutines have exited on both paths.
C25_Witness ==
  \E t, u \in TimerObjs :
    /\ tpc[t] \in {"fired", "panicked"}
    /\ tpc[u] = "cancelled"

\* C30: the result of GetAllActiveTimers holds an id exactly when the
\* registry maps it to a Timer whose active flag is set, and while the
\* callback of a Timer is executing GetTimer finds an entry under the
\* Timer's id and, if the entry is that Timer, the id is not in the result.
C30_ActiveSnapshot ==
  /\ \A i \in TimerIDs :
       i \in GetAllActiveTimers <=> (GetTimer(i).exists /\ tActive[GetTimer(i).timer])
  /\ \A t \in TimerObjs :
       tpc[t] = "in_cb" =>
         /\ GetTimer(tId[t]).exists
         /\ GetTimer(tId[t]).timer = t => tId[t] \notin GetAllActiveTimers

\* C26: when every handler has answered, a timed update has been applied
\* upstream and no reset callback has been invoked yet, a Timer is waiting
\* that will invoke it (a necessary condition, in finite runs, of "the reset
\* callback is eventually invoked").
C26_TemporaryBlockReverts ==
  ((\A c \in Callers : Returned(c))
   /\ applied
   /\ (\A t \in TimerObjs : cbCount[t] = 0))
    => \E t \in TimerObjs : tpc[t] = "select"

\* C27: once the handlers have answered and every Timer that got a stop
\* signal has finished its goroutine, at most one Timer is left whose
\* callback can still fire.
C27_OneResetPending ==
  ((\A c \in Callers : Returned(c))
   /\ (\A t \in TimerObjs : tpc[t] # "stop_del" /\ stopChan[t] = 0))
    => Cardinality({t \in TimerObjs : tpc[t] = "select"}) <= 1

\* C38: a call of NewTimerWithDuration or NewTimerWithDeadline with a nil
\* callback returns an error (the one for the callback, or the one for the
\* duration or deadline when that check fails first) and changes nothing:
\* the registry, every Timer (flag, channel, goroutine), the number of Timers
\* and the caller are as before; and whenever the callback error is returned
\* nothing has changed.
C38_NilCallbackRejected ==
  [][/\ \A c \in ValidationCallers, id \in ValidationIDs, o \in Offsets :
          /\ NewTimerWithDuration(c, id, o, "nil") =>
               /\ ret' \in {ErrNilCallback, ErrDuration}
               /\ o > 0 => ret' = ErrNilCallback
               /\ UNCHANGED <<timerVars, callerVars>>
          /\ NewTimerWithDeadline(c, id, o, "nil") =>
               /\ ret' \in {ErrNilCallback, ErrDeadline}
               /\ o > 0 => ret' = ErrNilCallback
               /\ UNCHANGED <<timerVars, callerVars>>
     /\ ret' = ErrNilCallback => UNCHANGED <<timerVars, callerVars>>]_vars

\* The callback error was returned while an active Timer is registered under
\* the id of the call.
C38_Witness ==
  /\ ret = ErrNilCallback
  /\ \E id \in ValidationIDs :
       GetTimer(id).exists /\ Pending(GetTimer(id).timer)

\* C31: IsActive is false of a Timer whose callback is running and of a
\* Timer whose goroutine is about to remove, or has removed, its registry
\* entry; the step that invokes the callback leaves the flag false; and the
\* flag of a Timer that exists never goes from false to true.
C31_InactiveBeforeCallbackAndRemoval ==
  /\ [](\A t \in TimerObjs :
          tpc[t] \in {"in_cb", "stop_del", "fired", "panicked", "cancelled"}
            => ~IsActive(t))
  /\ [][\A t \in TimerObjs :
          /\ cbCount'[t] > cbCount[t] => ~tActive'[t]
          /\ (tpc[t] # "none" /\ ~tActive[t]) => ~tActive'[t]
          /\ (tpc'[t] \in {"fired", "cancelled"} /\ tpc[t] # tpc'[t])
               => ~tActive[t]]_vars

\* One callback is running while the goroutine of a stopped Timer is about
\* to remove its entry.
C31_Witness ==
  \E t, u \in TimerObjs :
    /\ tpc[t] = "in_cb" /\ ~IsActive(t)
    /\ tpc[u] = "stop_del" /\ ~IsActive(u)

C33_Waiting(t) == tpc[t] = "select" /\ tActive[t] /\ stopChan[t] = 0

\* C33: ApiUpdateBlockedServicesDateTime answers a reset_date_time that is
\* absent, that no layout parses or that lies in the past with a 400, and in
\* doing so sends no update upstream, calls nothing of the timer package
\* (no Timer is stopped, none is created) and is finished.
C33_BadDateTimeRejected ==
  [][\A c \in Handlers, req \in DateTimeRequests :
       (/\ ApiUpdateBlockedServicesDateTime(c, req)
        /\ (req.layout = "" \/ req.layout \notin Layouts \/ req.off < 0))
         => /\ ret' \in {AnswerRequired, AnswerFormat, AnswerPast}
            /\ req.layout = "" => ret' = AnswerRequired
            /\ (req.layout \in Layouts /\ req.off < 0) => ret' = AnswerPast
            /\ hpc'[c] = "none"
            /\ applied' = applied
            /\ UNCHANGED <<timerVars, callerVars>>]_vars

\* A past deadline has been answered 400 while a Timer is waiting and no
\* update has ever been applied since that Timer's request.
C33_Witness ==
  /\ ret = AnswerPast
  /\ \E t \in TimerObjs : C33_Waiting(t)

\* C35: when UpdateBlockedServices fails in either handler, the handler
\* answers 500 and is finished, and neither that step nor any step the
\* handler took before it called anything of the timer package: the registry
\* and every Timer are as they were.
C35_UpdateFailureLeavesTimers ==
  [][\A c \in Handlers :
       /\ \A left \in Offsets :
            ApiUpdated(c, FALSE, left) =>
              /\ ret' = AnswerUpdateFailed
              /\ hpc'[c] = "none"
              /\ applied' = applied
              /\ UNCHANGED <<timerVars, callerVars>>
       /\ (hpc[c] = "none" /\ hpc'[c] = "h_update") =>
              UNCHANGED <<timerVars, callerVars>>
       /\ ret' = AnswerUpdateFailed => UNCHANGED <<timerVars, callerVars>>]_vars

\* An update has failed while a Timer of an earlier request is waiting.
C35_Witness ==
  /\ ret = AnswerUpdateFailed
  /\ \E t \in TimerObjs : C33_Waiting(t)

\* C36: a minutes request with reset_after_min <= 0 whose update succeeds
\* applies the update, answers that no reset timer is set, and in none of
\* its steps calls anything of the timer package: every Timer keeps its
\* state, expiry and registry entry.
C36_NoMinutesNoTimer ==
  [][\A c \in Handlers :
       /\ \A m \in Offsets :
            (m <= 0 /\ ApiUpdateBlockedServicesMin(c, m)) =>
              /\ hpc'[c] = "h_update"
              /\ UNCHANGED <<timerVars, callerVars>>
       /\ (hArg[c].kind = "min" /\ hArg[c].off <= 0 /\ hpc[c] = "h_update") =>
            /\ ApiUpdated(c, TRUE, hArg[c].off) =>
                 /\ applied'
                 /\ ret' = AnswerNoTimer
                 /\ hpc'[c] = "none"
            /\ hpc'[c] \in {"h_update", "none"}
            /\ hpc'[c] # hpc[c] => UNCHANGED <<timerVars, callerVars>>
       /\ ret' = AnswerNoTimer => UNCHANGED <<timerVars, callerVars>>]_vars

\* Such a request has been answered while a Timer of an earlier request is
\* waiting.
C36_Witness ==
  /\ ret = AnswerNoTimer
  /\ applied
  /\ \E t \in TimerObjs : C33_Waiting(t)

\* C34: whenever DoAuthenticatedRequest has returned to GetBlockedServices,
\* UpdateBlockedServices or ResetBlockedServices, the function returns nil
\* only if the last response the upstream gave to the request has status
\* 200, after at most one re-authentication and at most two sends; any other
\* last status, a 401 or 403 answered to the resend included, and any
\* failure to get a response, gives the caller an error.
C34_NilOnlyOn200 ==
  \A bodyOK \in BOOLEAN :
    out.op = "DoAuthenticatedRequest" =>
      LET e == BlockedServicesError(out.resp, out.err, bodyOK)
          n == Len(out.sends)
      IN /\ e = "" => /\ n \in 1..2
                      /\ out.sends[n] = 200
                      /\ out.nAuth <= 1
                      /\ n = 2 => out.nAuth = 1 /\ out.sends[1] \in {401, 403}
         /\ (n = 0 \/ out.sends[n] # 200) => e # ""
         /\ (out.resp # 200 \/ out.err # "") => e # ""

\* The resend was answered 403 and the caller gets an error.
C34_Witness ==
  /\ out.op = "DoAuthenticatedRequest"
  /\ Len(out.sends) = 2
  /\ out.sends[2] = 403
  /\ out.nAuth = 1
  /\ BlockedServicesError(out.resp, out.err, TRUE) = ErrStatus

\* C37: when main, having received the signal, looks for Timers to stop and
\* a Timer exists whose goroutine is still waiting for its expiry (it is
\* active, nobody has signalled it, its callback has not run), main goes on
\* to stop all Timers and to call ResetBlockedServices.
C37_ShutdownResetsPending ==
  [][(mpc = "m_getall" /\ mpc' # "m_getall") =>
       ((\E t \in TimerObjs :
           tpc[t] = "select" /\ tActive[t] /\ stopChan[t] = 0 /\ cbCount[t] = 0)
          => mpc' = "m_stopall")]_vars

\* The goroutine is about to take timersMu or a Timer's lock.
C39_CallerWaits(c) == cpc[c] \in CallerAtLock \cup CallerAtRLock \cup StopAtMu \cup IsActiveAtMu
C39_RunWaits(t) == tpc[t] \in RunAtLock \cup RunAtMu

\* C39: a goroutine that holds a Timer's lock is never at a call of
\* timersMu.Lock or timersMu.RLock and never holds timersMu for writing; and
\* in every state in which a goroutine waits for timersMu or for a Timer's
\* lock, or holds one of them, some call in progress or some Timer
\* goroutine can take its next step. Calls and goroutines being finite, no
\* goroutine waits forever.
C39_DeadlockFree ==
  /\ \A t \in TimerObjs :
       /\ tMu[t] \in Callers =>
            /\ cpc[tMu[t]] \notin CallerAtLock \cup CallerAtRLock
            /\ tMu[t] \notin timersMu.w
       /\ tMu[t] = "run" => tpc[t] \notin RunAtLock
  /\ (\/ \E c \in Callers : C39_CallerWaits(c)
      \/ \E t \in TimerObjs : C39_RunWaits(t) \/ tMu[t] # NoHolder
      \/ timersMu # Unlocked)
       => ENABLED (\/ \E c \in Callers : callerStep(c)
                   \/ \E t \in TimerObjs : runStep(t))

\* A caller holds the read lock in GetAllActiveTimers and waits for the lock
\* of a Timer whose goroutine holds it, while another goroutine waits to
\* write the registry.
C39_Witness ==
  \E c \in Callers :
    /\ cpc[c] = "GetAllActiveTimers/IsActive:170"
    /\ c \in timersMu.r
    /\ tMu[cArg[c].found] = "run"
    /\ WriterWaits

====
